---- MODULE Spec2Model ----
(***************************************************************************)
(* Verification model of the TestForge pipeline (testforge/):              *)
(*   - ExecutorAgent (agents/executor/runner.py): file materialisation,    *)
(*     child process launch, timeout, console transcript parsing;          *)
(*   - run_golden_pipeline / run_observer_pipeline / run_pipeline          *)
(*     (orchestration/): stage sequencing and error propagation;           *)
(*   - detect_flaky_tests (agents/validator/flakiness.py): repeated runs;  *)
(*   - MapperAgent (agents/mapper/api_mapper.py): path normalisation,      *)
(*     grouping, endpoint synthesis, dependencies, common headers;         *)
(*   - ValidatorAgent._score_test (agents/validator/quality.py);           *)
(*   - AnalyzerAgent (agents/analyzer/): batch parsing, common imports;    *)
(*   - GeneratorAgent._parse_response and TestSuite.to_file_content;       *)
(*   - ContextStore.update_from_run (context_store.py);                    *)
(*   - overlapping ExecutorAgent.run calls and their working directories.  *)
(*                                                                         *)
(* A console transcript is modelled line by line.  Every line is a record  *)
(* [kind, name, word]; the kinds stand for the concrete texts below, and   *)
(* each regular expression of the parser is modelled by the set of kinds   *)
(* it matches:                                                             *)
(*   status   "tests/x.py::<name> <WORD>"          (WORD in StatusWords)   *)
(*   failures "=========== FAILURES ==========="                           *)
(*   block    "__________ <name> __________"                               *)
(*   text     "    assert 1 == 2"   (no token, no "___", no "::")          *)
(*   errtext  "ERROR: file not found"  (contains the token ERROR)          *)
(*   banner   "===== short test summary info =====" / "== 1 failed in .."  *)
(*   summary  "FAILED tests/x.py::<name> - assert 1 == 2"                  *)
(* A message (error_message) is a sequence of lines; both None and "" are  *)
(* the empty sequence.                                                     *)
(***************************************************************************)
EXTENDS Naturals, Integers, Sequences, FiniteSets, TLC

VARIABLES
    \* ---- ExecutorAgent (runner.py) ----
    xpc,            \* position of ExecutorAgent.run / _run_pytest
    proc,           \* child process: "none", "running", "exited"
    stdout,         \* transcript the child wrote to its stdout pipe
    returncode,     \* child's exit code (-1 while unknown)
    files,          \* files written into the working directory
    test_results,   \* ExecutionResult.test_results returned by the Executor
    \* ---- pipelines (orchestration/) ----
    request,        \* PipelineRequest
    pc,             \* position of run_pipeline and the pipeline it runs
    config,         \* GoldenPipelineConfig / ObserverPipelineConfig
    result,         \* GoldenPipelineResult / ObserverPipelineResult
    execution_result, \* local variable execution_result of the pipeline
    calls,          \* stage invocations made so far, with their outcome
    response,       \* PipelineResponse, or NoResponse
    \* ---- detect_flaky_tests (agents/validator/flakiness.py) ----
    fpc,            \* position of detect_flaky_tests
    runs,           \* parameter runs
    started,        \* executor.run calls made
    finished,       \* executor.run calls that have returned
    results_per_test, \* dict test name -> statuses, in insertion order
    flaky,          \* the list returned
    run_log,        \* the test_results each executor run returned
    \* ---- MapperAgent (agents/mapper/api_mapper.py) ----
    mpc,            \* position of MapperAgent.run
    exchanges,      \* record.http_exchanges
    grouped,        \* dict (method, normalized path) -> exchanges
    endpoint_map,   \* the EndpointMap returned
    \* ---- MapperAgent._normalize_path applied twice ----
    npc,            \* how often _normalize_path was applied
    path,           \* the input path
    normalized,     \* _normalize_path(path)
    renormalized,   \* _normalize_path(normalized)
    \* ---- ValidatorAgent._score_test (agents/validator/quality.py) ----
    qpc,            \* position of _score_test
    test,           \* the GeneratedTest, as what the scorer reads off it
    quality_score,  \* the QualityScore returned
    \* ---- AnalyzerAgent (agents/analyzer/) ----
    apc,            \* position of AnalyzerAgent.run
    golden_file_paths,   \* AnalyzerInput.golden_file_paths, as the files
    golden_source_codes, \* AnalyzerInput.golden_source_codes
    analyzer_output, \* what AnalyzerAgent.run returned or raised
    \* ---- GeneratorAgent._parse_response, TestSuite.to_file_content ----
    gpc,            \* position: parsed, rendered, split again
    generator_input, \* the generation service's answer and the style guide
    test_suite,     \* the TestSuite built by _parse_response
    file_content,   \* test_suite.to_file_content()
    split_again,    \* _extract_test_functions(file_content)
    \* ---- ContextStore.update_from_run (context_store.py) ----
    ctx,            \* the AppContext of one application
    context_file,   \* what _save wrote to the context file
    update,         \* the arguments of the last update_from_run call
    \* ---- ExecutorAgent.run called by several callers at once ----
    directories,    \* the directories that exist on disk
    invocation      \* per ExecutorAgent.run call: input, test_dir, files

exec_vars == <<xpc, proc, stdout, returncode, files, test_results>>
pipe_vars == <<request, pc, config, result, execution_result, calls, response>>
flaky_vars ==
    <<fpc, runs, started, finished, results_per_test, flaky, run_log>>
map_vars == <<mpc, exchanges, grouped, endpoint_map>>
norm_vars == <<npc, path, normalized, renormalized>>
vars == <<xpc, proc, stdout, returncode, files, test_results,
          request, pc, config, result, execution_result, calls, response,
          fpc, runs, started, finished, results_per_test, flaky, run_log,
          mpc, exchanges, grouped, endpoint_map,
          npc, path, normalized, renormalized,
          qpc, test, quality_score,
          apc, golden_file_paths, golden_source_codes, analyzer_output,
          gpc, generator_input, test_suite, file_content, split_again,
          ctx, context_file, update,
          directories, invocation>>

quality_vars == <<qpc, test, quality_score>>
\* the executor, the pipelines, the flakiness loop and the mapper
core_vars == <<exec_vars, pipe_vars, flaky_vars, map_vars, norm_vars>>
\* the components that are modelled as one call each
analyzer_vars ==
    <<apc, golden_file_paths, golden_source_codes, analyzer_output>>
generator_vars ==
    <<gpc, generator_input, test_suite, file_content, split_again>>
store_vars == <<ctx, context_file, update>>
workdir_vars == <<directories, invocation>>
unit_vars ==
    <<quality_vars, analyzer_vars, generator_vars, store_vars, workdir_vars>>

\* the variables each component leaves alone
non_exec_vars == <<pipe_vars, flaky_vars, map_vars, norm_vars, unit_vars>>
non_pipe_vars == <<exec_vars, flaky_vars, map_vars, norm_vars, unit_vars>>
non_flaky_vars == <<exec_vars, pipe_vars, map_vars, norm_vars, unit_vars>>
non_map_vars == <<exec_vars, pipe_vars, flaky_vars, norm_vars, unit_vars>>
non_norm_vars == <<exec_vars, pipe_vars, flaky_vars, map_vars, unit_vars>>

-----------------------------------------------------------------------------
(* Bounds *)

MaxLines == 3          \* transcript length in the Executor specification
MaxStatusLines == 2    \* status lines of a pytest-shaped transcript
MaxBlocks == 2         \* failure blocks of a pytest-shaped transcript
MaxExamples == 1       \* golden examples supplied to a pipeline request
MaxExchanges == 1      \* captured exchanges supplied to a pipeline request
MaxRuns == 3           \* runs parameter of detect_flaky_tests
MaxPathLen == 5        \* atoms of a path given to _normalize_path
MaxRecorded == 3       \* exchanges of a recording that vary in method and path
MaxSamples == 2        \* exchanges of a recording that vary in bodies or headers
MaxAsserts == 5        \* occurrences of the assert keyword in a test
MaxLineCount == 31     \* lines of a test's source code
MaxFiles == 3          \* paths in golden_file_paths
MaxSources == 1        \* sources in golden_source_codes
MaxCodeLines == 4      \* lines of the generation service's answer
MaxUpdates == 3        \* update_from_run calls on one context
MaxEndpoints == 2      \* endpoints of an endpoint map given to the store
MaxInvocations == 2    \* ExecutorAgent.run calls that may overlap

-----------------------------------------------------------------------------
(* Transcript lines *)

Names == {"test_a", "test_b"}
StatusWords == {"PASSED", "FAILED", "ERROR", "SKIPPED"}

StatusLine(n, w) == [kind |-> "status", name |-> n, word |-> w]
FailuresBanner == [kind |-> "failures", name |-> "", word |-> ""]
BlockHeader(n) == [kind |-> "block", name |-> n, word |-> ""]
TextLine(w) == [kind |-> "text", name |-> "", word |-> w]
ErrTextLine == [kind |-> "errtext", name |-> "", word |-> "ERROR"]
Banner(w) == [kind |-> "banner", name |-> "", word |-> w]
SummaryLine(n) == [kind |-> "summary", name |-> n, word |-> "FAILED"]

LineAlphabet ==
    {StatusLine(n, w) : n \in Names, w \in StatusWords}
    \cup {FailuresBanner, TextLine("assert"), ErrTextLine, Banner("summary")}
    \cup {BlockHeader(n) : n \in Names}
    \cup {SummaryLine(n) : n \in Names}

Transcripts == UNION {[1..n -> LineAlphabet] : n \in 0..MaxLines}

Min(S) == CHOOSE x \in S : \A y \in S : x <= y
Max(S) == CHOOSE x \in S : \A y \in S : x >= y

-----------------------------------------------------------------------------
(* ExecutorAgent._parse_pytest_output *)

TestResult(n, s, msg) == [test_name |-> n, status |-> s, error_message |-> msg]

\* match.group(2).lower()
Lower(w) ==
    CASE w = "PASSED" -> "passed"
      [] w = "FAILED" -> "failed"
      [] w = "ERROR" -> "error"
      [] w = "SKIPPED" -> "skipped"

\* re.split(r"={3,}\s*FAILURES\s*={3,}", stdout): the pieces of the transcript
\* around the FAILURES banners; element [1] is the piece after the first one.
FailureBlock(out) ==
    LET idx == {i \in 1..Len(out) : out[i].kind = "failures"}
    IN  IF idx = {} THEN <<>>
        ELSE LET first == Min(idx)
                 rest == {i \in idx : i > first}
                 last == IF rest = {} THEN Len(out) ELSE Min(rest) - 1
             IN  SubSeq(out, first + 1, last)

\* r"_{3,}" can match inside the line
ContainsUnderline(line) == line.kind = "block"

\* (.*?)(?=_{3,}|\Z): the text after header i up to the next "___" or the end
BlockBody(fb, i) ==
    LET stops == {j \in (i + 1)..Len(fb) : ContainsUnderline(fb[j])}
        last == IF stops = {} THEN Len(fb) ELSE Min(stops) - 1
    IN  SubSeq(fb, i + 1, last)

\* failure_details: the finditer loop; a later header of a name overwrites
FailureDetails(out) ==
    LET fb == FailureBlock(out)
        hdr == {i \in 1..Len(fb) : fb[i].kind = "block"}
    IN  [n \in {fb[i].name : i \in hdr} |->
            BlockBody(fb, Max({i \in hdr : fb[i].name = n}))]

\* failure_details.get(name, "")
DetailsGet(fd, n) == IF n \in DOMAIN fd THEN fd[n] ELSE <<>>

\* r".*?::(\w+)\s+(PASSED|FAILED|ERROR|SKIPPED)\s*(\[.*\])?"
MatchStatus(line) == line.kind = "status"

\* r"FAILED\s+.*?::(\w+)"
MatchSummary(line) == line.kind = "summary"

\* "FAILED" in stdout or "ERROR" in stdout
ContainsFailureToken(line) ==
    \/ line.kind = "status" /\ line.word \in {"FAILED", "ERROR"}
    \/ line.kind \in {"summary", "errtext"}

\* error_message=error_msg if status_str == "failed" else ""
StatusErrorMessage(status_str, error_msg) ==
    IF status_str = "failed" THEN error_msg ELSE <<>>

\* mutant: a name that was seen before is recorded again
RECURSIVE ScanStatusLines_Mut(_, _, _, _)
ScanStatusLines_Mut(lines, results, seen_names, failure_details) ==
    IF lines = <<>> THEN [results |-> results, seen_names |-> seen_names]
    ELSE LET line == Head(lines)
         IN  IF MatchStatus(line)
             THEN ScanStatusLines_Mut(Tail(lines),
                     Append(results,
                            TestResult(line.name, Lower(line.word),
                                StatusErrorMessage(Lower(line.word),
                                    DetailsGet(failure_details, line.name)))),
                     seen_names \cup {line.name}, failure_details)
             ELSE ScanStatusLines_Mut(Tail(lines), results, seen_names,
                                      failure_details)

\* the first loop over stdout.split("\n")
RECURSIVE ScanStatusLines(_, _, _, _)
ScanStatusLines(lines, results, seen_names, failure_details) ==
    IF lines = <<>> THEN [results |-> results, seen_names |-> seen_names]
    ELSE LET line == Head(lines)
         IN  IF MatchStatus(line) /\ line.name \notin seen_names
             THEN ScanStatusLines(Tail(lines),
                     Append(results,
                            TestResult(line.name, Lower(line.word),
                                StatusErrorMessage(Lower(line.word),
                                    DetailsGet(failure_details, line.name)))),
                     seen_names \cup {line.name}, failure_details)
             ELSE ScanStatusLines(Tail(lines), results, seen_names,
                                  failure_details)

\* the fallback loop over the short summary lines
RECURSIVE ScanSummaryLines(_, _, _)
ScanSummaryLines(lines, results, seen_names) ==
    IF lines = <<>> THEN results
    ELSE LET line == Head(lines)
         IN  IF MatchSummary(line) /\ line.name \notin seen_names
             THEN ScanSummaryLines(Tail(lines),
                     Append(results, TestResult(line.name, "failed", <<>>)),
                     seen_names \cup {line.name})
             ELSE ScanSummaryLines(Tail(lines), results, seen_names)

\* "if not results:" fall back to summary parsing
SummaryFallback(results, seen_names, out) ==
    IF results = <<>> THEN ScanSummaryLines(out, results, seen_names)
    ELSE results

\* mutant: the last resort is dropped
LastResort_Mut(results, out) == results

\* "if not results:" last resort, one suite-level result
LastResort(results, out) ==
    IF results = <<>>
    THEN LET has_failures == \E i \in 1..Len(out) : ContainsFailureToken(out[i])
         IN  <<TestResult("<suite>",
                          IF has_failures THEN "failed" ELSE "passed", <<>>)>>
    ELSE results

_parse_pytest_output(out) ==
    LET failure_details == FailureDetails(out)
        first == ScanStatusLines(out, <<>>, {}, failure_details)
        second == SummaryFallback(first.results, first.seen_names, out)
    IN  LastResort(second, out)

-----------------------------------------------------------------------------
(* ExecutorAgent.run and ExecutorAgent._run_pytest *)

ExitCodes == {0, 1}
FsFaults == {"none", "mkdir", "suite", "conftest"}

\* mutant: the timeout is reported like any other launch failure
TimeoutResult_Mut ==
    <<[test_name |-> "<suite>", status |-> "error",
       error_message |-> <<[kind |-> "text", name |-> "", word |-> "timeout"]>>]>>

\* except asyncio.TimeoutError: one "<suite>" result
TimeoutResult ==
    <<TestResult("<suite>", "timeout", <<TextLine("timed out after")>>)>>

\* except Exception as e: one "<suite>" result carrying str(e)
ErrorResult ==
    <<TestResult("<suite>", "error", <<TextLine("launch failed")>>)>>

\* the files run() has written when the fault hits (mkdir, then the suite
\* file, then conftest.py)
FilesWritten(fault) ==
    CASE fault = "mkdir" -> {}
      [] fault = "suite" -> {}
      [] fault = "conftest" -> {"suite"}
      [] fault = "none" -> {"suite", "conftest"}

\* does run() get as far as calling _run_pytest?  mkdir and the two
\* write_text calls are outside any try block.
WritesSucceed(fault) == fault = "none"

\* what the timeout handler does to the child process: nothing, the handler
\* only builds the result (no proc.kill() / proc.terminate())
ProcAfterTimeout(p) == p

ExecInit ==
    /\ xpc = "idle"
    /\ proc = "none"
    /\ stdout = <<>>
    /\ returncode = -1
    /\ files = {}
    /\ test_results = <<>>

\* run(): write the files, then _run_pytest up to the await of communicate
ExecRun ==
    /\ xpc = "idle"
    /\ \E fault \in FsFaults, launch_ok \in BOOLEAN :
          /\ files' = FilesWritten(fault)
          /\ IF ~WritesSucceed(fault)
             THEN /\ xpc' = "raised"
                  /\ UNCHANGED <<proc, test_results>>
             ELSE IF launch_ok
             THEN /\ xpc' = "waiting"
                  /\ proc' = "running"
                  /\ UNCHANGED test_results
             ELSE /\ xpc' = "returned"
                  /\ test_results' = ErrorResult
                  /\ UNCHANGED proc
    /\ UNCHANGED <<stdout, returncode>>
    /\ UNCHANGED non_exec_vars

\* the child process writes its transcript and exits
ChildExit ==
    /\ proc = "running"
    /\ \E t \in Transcripts, code \in ExitCodes :
          /\ stdout' = t
          /\ returncode' = code
    /\ proc' = "exited"
    /\ UNCHANGED <<xpc, files, test_results>>
    /\ UNCHANGED non_exec_vars

\* proc.communicate() completes: decode, parse, return
CommunicateReturns ==
    /\ xpc = "waiting"
    /\ proc = "exited"
    /\ test_results' = _parse_pytest_output(stdout)
    /\ xpc' = "returned"
    /\ UNCHANGED <<proc, stdout, returncode, files>>
    /\ UNCHANGED non_exec_vars

\* asyncio.wait_for gives up: except asyncio.TimeoutError
TimeoutFires ==
    /\ xpc = "waiting"
    /\ test_results' = TimeoutResult
    /\ xpc' = "returned"
    /\ proc' = ProcAfterTimeout(proc)
    /\ UNCHANGED <<stdout, returncode, files>>
    /\ UNCHANGED non_exec_vars

ExecNext ==
    \/ ExecRun
    \/ ChildExit
    \/ CommunicateReturns
    \/ TimeoutFires

-----------------------------------------------------------------------------
(* Pipelines: orchestration/golden_pipeline.py, observer_pipeline.py,      *)
(* engine.py                                                               *)

Modes == {"golden", "observer", "combined", "other"}

Requests ==
    [mode : Modes, execute_tests : BOOLEAN,
     golden : 0..MaxExamples, exchanges : 0..MaxExchanges]

\* ExecutionResult | None
NoExecution == [present |-> FALSE, test_results |-> <<>>]
Execution(tr) == [present |-> TRUE, test_results |-> tr]

\* ValidationResult | None
NoValidation == [present |-> FALSE, execution_result |-> NoExecution]

\* result = GoldenPipelineResult() / ObserverPipelineResult()
EmptyResult ==
    [style_guide |-> "None", endpoint_map |-> "None", test_suite |-> "None",
     execution_result |-> NoExecution, validation_result |-> NoValidation,
     test_file_path |-> "", errors |-> <<>>]

NoConfig == [execute_tests |-> FALSE, golden_style_guide |-> "None"]

NoResponse ==
    [present |-> FALSE, mode |-> "", success |-> FALSE, errors |-> <<>>,
     test_file |-> "", summary |-> FALSE]

\* the success property of both result classes
Success(r) == r.test_suite # "None" /\ r.errors = <<>>

Call(stage, outcome, er) ==
    [stage |-> stage, outcome |-> outcome, execution_result |-> er]

\* AnalyzerAgent.run raises when no example is left after parsing (or when
\* reading or parsing an example raises)
AnalyzerRaises(golden, fault) == golden = 0 \/ fault

\* ExecutorAgent.run as one call: what the caller gets back
ExecutorRun(fault, launch_ok, timed_out, out) ==
    IF ~WritesSucceed(fault)
    THEN [raised |-> TRUE, test_results |-> <<>>]
    ELSE IF ~launch_ok
    THEN [raised |-> FALSE, test_results |-> ErrorResult]
    ELSE IF timed_out
    THEN [raised |-> FALSE, test_results |-> TimeoutResult]
    ELSE [raised |-> FALSE, test_results |-> _parse_pytest_output(out)]

\* transcripts of the child in a pipeline run
PipeTranscripts ==
    {<<>>, <<StatusLine("test_a", "PASSED")>>, <<StatusLine("test_a", "FAILED")>>}

\* where each except block of the pipelines continues
AnalyzerFailedNext == "respond"
ObserverFailedNext == "respond"
NoExchangesNext == "respond"

\* mutant: the except block of the Mapper stage lacks its return
MapperFailedNext_Mut == "generate"

MapperFailedNext == "respond"
GeneratorFailedNext == "respond"
ExecutorFailedNext == "validate"

\* mutant: the Executor stage runs unconditionally
AfterGenerate_Mut(cfg) == "execute"

\* "if config.execute_tests:" decides whether the Executor stage runs
AfterGenerate(cfg) == IF cfg.execute_tests THEN "execute" ELSE "validate"

\* errors appended by the except blocks of stage 3 and 4 of the pipelines
ExecutorFailedErrors(errs) == Append(errs, "Executor failed")
ValidatorFailedErrors(errs) == Append(errs, "Validator failed")

\* _run_combined: the Analyzer call of engine.py is not inside a try block
CombinedAnalyzerFailedNext == "raised"

PipeInit ==
    /\ request \in Requests
    /\ pc = "start"
    /\ config = NoConfig
    /\ result = EmptyResult
    /\ execution_result = NoExecution
    /\ calls = <<>>
    /\ response = NoResponse

\* run_pipeline: dispatch on request.mode, build the config
RunPipeline ==
    /\ pc = "start"
    /\ config' = [execute_tests |-> request.execute_tests,
                  golden_style_guide |-> "None"]
    /\ CASE request.mode = "golden" ->
              /\ pc' = "analyze"
              /\ UNCHANGED response
         [] request.mode = "observer" ->
              /\ pc' = "observe"
              /\ UNCHANGED response
         [] request.mode = "combined" ->
              /\ pc' = IF request.golden > 0 THEN "style" ELSE "observe"
              /\ UNCHANGED response
         [] OTHER ->
              /\ pc' = "done"
              /\ response' = [present |-> TRUE, mode |-> request.mode,
                              success |-> FALSE,
                              errors |-> <<"Unknown mode">>,
                              test_file |-> "", summary |-> FALSE]
    /\ UNCHANGED <<request, result, execution_result, calls>>
    /\ UNCHANGED non_pipe_vars

\* _run_combined step 1: analyzer.run outside any try block
CombinedAnalyze ==
    /\ pc = "style"
    /\ \E fault \in BOOLEAN :
          IF AnalyzerRaises(request.golden, fault)
          THEN /\ pc' = CombinedAnalyzerFailedNext
               /\ calls' = Append(calls, Call("Analyzer", "raise", NoExecution))
               /\ UNCHANGED config
          ELSE /\ pc' = "observe"
               /\ calls' = Append(calls, Call("Analyzer", "ok", NoExecution))
               /\ config' = [config EXCEPT !.golden_style_guide = "style"]
    /\ UNCHANGED <<request, result, execution_result, response>>
    /\ UNCHANGED non_pipe_vars

\* run_golden_pipeline step 1
Analyze ==
    /\ pc = "analyze"
    /\ \E fault \in BOOLEAN :
          IF AnalyzerRaises(request.golden, fault)
          THEN /\ result' = [result EXCEPT
                                !.errors = Append(@, "Analyzer failed")]
               /\ calls' = Append(calls, Call("Analyzer", "raise", NoExecution))
               /\ pc' = AnalyzerFailedNext
          ELSE /\ result' = [result EXCEPT !.style_guide = "style"]
               /\ calls' = Append(calls, Call("Analyzer", "ok", NoExecution))
               /\ pc' = "generate"
    /\ UNCHANGED <<request, config, execution_result, response>>
    /\ UNCHANGED non_pipe_vars

\* run_observer_pipeline step 1, with the check for an empty record
Observe ==
    /\ pc = "observe"
    /\ \E fault \in BOOLEAN :
          IF fault
          THEN /\ result' = [result EXCEPT
                                !.errors = Append(@, "Observer failed")]
               /\ calls' = Append(calls, Call("Observer", "raise", NoExecution))
               /\ pc' = ObserverFailedNext
          ELSE /\ calls' = Append(calls, Call("Observer", "ok", NoExecution))
               /\ IF request.exchanges = 0
                  THEN /\ result' = [result EXCEPT !.errors =
                                  Append(@, "No HTTP exchanges captured")]
                       /\ pc' = NoExchangesNext
                  ELSE /\ pc' = "map"
                       /\ UNCHANGED result
    /\ UNCHANGED <<request, config, execution_result, response>>
    /\ UNCHANGED non_pipe_vars

\* run_observer_pipeline step 2
Map ==
    /\ pc = "map"
    /\ \E fault \in BOOLEAN :
          IF fault
          THEN /\ result' = [result EXCEPT
                                !.errors = Append(@, "Mapper failed")]
               /\ calls' = Append(calls, Call("Mapper", "raise", NoExecution))
               /\ pc' = MapperFailedNext
          ELSE /\ result' = [result EXCEPT !.endpoint_map = "map"]
               /\ calls' = Append(calls, Call("Mapper", "ok", NoExecution))
               /\ pc' = "generate"
    /\ UNCHANGED <<request, config, execution_result, response>>
    /\ UNCHANGED non_pipe_vars

\* step 2 (golden) / step 3 (observer): the Generator
Generate ==
    /\ pc = "generate"
    /\ \E fault \in BOOLEAN :
          IF fault
          THEN /\ result' = [result EXCEPT
                                !.errors = Append(@, "Generator failed")]
               /\ calls' = Append(calls, Call("Generator", "raise", NoExecution))
               /\ pc' = GeneratorFailedNext
          ELSE /\ result' = [result EXCEPT !.test_suite = "suite"]
               /\ calls' = Append(calls, Call("Generator", "ok", NoExecution))
               /\ pc' = AfterGenerate(config)
    /\ UNCHANGED <<request, config, execution_result, response>>
    /\ UNCHANGED non_pipe_vars

\* step 3 (golden) / step 4 (observer): the Executor, when execute_tests
Execute ==
    /\ pc = "execute"
    /\ \E fault \in FsFaults, launch_ok \in BOOLEAN, timed_out \in BOOLEAN,
          out \in PipeTranscripts :
          LET o == ExecutorRun(fault, launch_ok, timed_out, out)
          IN  IF o.raised
              THEN /\ result' = [result EXCEPT
                                    !.errors = ExecutorFailedErrors(@)]
                   /\ calls' = Append(calls,
                                      Call("Executor", "raise", NoExecution))
                   /\ pc' = ExecutorFailedNext
                   /\ UNCHANGED execution_result
              ELSE /\ execution_result' = Execution(o.test_results)
                   /\ result' = [result EXCEPT
                         !.execution_result =
                             IF request.mode = "golden"
                             THEN Execution(o.test_results) ELSE @,
                         !.test_file_path = "test_file"]
                   /\ calls' = Append(calls, Call("Executor", "ok", NoExecution))
                   /\ pc' = "validate"
    /\ UNCHANGED <<request, config, response>>
    /\ UNCHANGED non_pipe_vars

\* step 4 (golden) / step 5 (observer): the Validator
Validate ==
    /\ pc = "validate"
    /\ \E fault \in BOOLEAN :
          IF fault
          THEN /\ result' = [result EXCEPT
                                !.errors = ValidatorFailedErrors(@)]
               /\ calls' = Append(calls,
                                  Call("Validator", "raise", execution_result))
          ELSE /\ result' = [result EXCEPT !.validation_result =
                     [present |-> TRUE, execution_result |-> execution_result]]
               /\ calls' = Append(calls,
                                  Call("Validator", "ok", execution_result))
    /\ pc' = "respond"
    /\ UNCHANGED <<request, config, execution_result, response>>
    /\ UNCHANGED non_pipe_vars

\* _run_golden / _run_observer / _run_combined: build the PipelineResponse
Respond ==
    /\ pc = "respond"
    /\ response' = [present |-> TRUE, mode |-> request.mode,
                    success |-> Success(result),
                    errors |-> result.errors,
                    test_file |-> IF result.test_suite # "None"
                                  THEN "file content" ELSE "",
                    summary |-> result.validation_result.present]
    /\ pc' = "done"
    /\ UNCHANGED <<request, config, result, execution_result, calls>>
    /\ UNCHANGED non_pipe_vars

PipeNext ==
    \/ RunPipeline
    \/ CombinedAnalyze
    \/ Analyze
    \/ Observe
    \/ Map
    \/ Generate
    \/ Execute
    \/ Validate
    \/ Respond

-----------------------------------------------------------------------------
(* detect_flaky_tests: agents/validator/flakiness.py *)

\* transcripts of the child in the runs of one detect_flaky_tests call
FlakyTranscripts ==
    {<<StatusLine("test_a", "PASSED")>>,
     <<StatusLine("test_a", "FAILED")>>,
     <<StatusLine("test_a", "PASSED"), StatusLine("test_b", "PASSED")>>,
     <<StatusLine("test_a", "PASSED"), StatusLine("test_b", "FAILED")>>}

\* mutant: one run is enough to enter the loop
TooFewRuns_Mut(n) == n < 1

\* "if runs < 2: return []"
TooFewRuns(n) == n < 2

\* "for tr in output.execution_result.test_results:
\*      results_per_test.setdefault(tr.test_name, []).append(tr.status)"
RECURSIVE Accumulate(_, _)
Accumulate(rpt, trs) ==
    IF trs = <<>> THEN rpt
    ELSE LET tr == Head(trs)
             appended ==
                IF \E k \in 1..Len(rpt) : rpt[k].test_name = tr.test_name
                THEN [k \in 1..Len(rpt) |->
                         IF rpt[k].test_name = tr.test_name
                         THEN [rpt[k] EXCEPT !.statuses = Append(@, tr.status)]
                         ELSE rpt[k]]
                ELSE Append(rpt, [test_name |-> tr.test_name,
                                  statuses |-> <<tr.status>>])
         IN  Accumulate(appended, Tail(trs))

\* mutant: a test run more than once counts as flaky
IsFlaky_Mut(statuses) == Len(statuses) > 1

\* "if len(set(statuses)) > 1:"
IsFlaky(statuses) ==
    Cardinality({statuses[k] : k \in 1..Len(statuses)}) > 1

\* the final loop over results_per_test.items()
RECURSIVE FlakyNames(_)
FlakyNames(rpt) ==
    IF rpt = <<>> THEN <<>>
    ELSE IF IsFlaky(Head(rpt).statuses)
    THEN <<Head(rpt).test_name>> \o FlakyNames(Tail(rpt))
    ELSE FlakyNames(Tail(rpt))

FlakyInit ==
    /\ fpc = "start"
    /\ runs \in 0..MaxRuns
    /\ started = 0
    /\ finished = 0
    /\ results_per_test = <<>>
    /\ flaky = <<>>
    /\ run_log = <<>>

\* detect_flaky_tests up to the loop: the guard on runs
DetectStart ==
    /\ fpc = "start"
    /\ fpc' = IF TooFewRuns(runs) THEN "done" ELSE "loop"
    /\ UNCHANGED <<runs, started, finished, results_per_test, flaky, run_log>>
    /\ UNCHANGED non_flaky_vars

\* one iteration of "for i in range(runs)": executor.run is called
StartRun ==
    /\ fpc = "loop"
    /\ started < runs
    /\ started' = started + 1
    /\ fpc' = "running"
    /\ UNCHANGED <<runs, finished, results_per_test, flaky, run_log>>
    /\ UNCHANGED non_flaky_vars

\* "output = await executor.run(executor_input)" completes, the statuses
\* are recorded; an exception of executor.run leaves detect_flaky_tests
RunReturns ==
    /\ fpc = "running"
    /\ \E fault \in FsFaults, launch_ok \in BOOLEAN, timed_out \in BOOLEAN,
          out \in FlakyTranscripts :
          LET o == ExecutorRun(fault, launch_ok, timed_out, out)
          IN  IF o.raised
              THEN /\ fpc' = "raised"
                   /\ UNCHANGED <<finished, results_per_test, run_log>>
              ELSE /\ fpc' = "loop"
                   /\ finished' = finished + 1
                   /\ results_per_test' =
                         Accumulate(results_per_test, o.test_results)
                   /\ run_log' = Append(run_log, o.test_results)
    /\ UNCHANGED <<runs, started, flaky>>
    /\ UNCHANGED non_flaky_vars

\* after the loop: collect the flaky names and return
CollectFlaky ==
    /\ fpc = "loop"
    /\ started = runs
    /\ flaky' = FlakyNames(results_per_test)
    /\ fpc' = "done"
    /\ UNCHANGED <<runs, started, finished, results_per_test, run_log>>
    /\ UNCHANGED non_flaky_vars

FlakyNext ==
    \/ DetectStart
    \/ StartRun
    \/ RunReturns
    \/ CollectFlaky

-----------------------------------------------------------------------------
(* MapperAgent._normalize_path: agents/mapper/api_mapper.py *)

\* A path is a sequence of atoms: the separator, a digit, a letter, a whole
\* UUID-shaped token (8-4-4-4-12 hex digits), and the two placeholders.
\* A line feed is not among the atoms.
PathAtoms == {"/", "7", "u", "UUID", "{id}", "{uuid}"}

\* the sequences over S of length up to n
SeqsUpTo(S, n) == UNION {[1..k -> S] : k \in 0..n}

\* path.strip("/"): from the first to the last atom that is not a slash
Strip(s) ==
    LET kept == {i \in 1..Len(s) : s[i] # "/"}
    IN  IF kept = {} THEN <<>> ELSE SubSeq(s, Min(kept), Max(kept))

\* str.split("/"): always at least one part, empty parts are kept
RECURSIVE Split(_)
Split(s) ==
    IF s = <<>> THEN << <<>> >>
    ELSE IF Head(s) = "/" THEN << <<>> >> \o Split(Tail(s))
    ELSE LET rest == Split(Tail(s))
         IN  << <<Head(s)>> \o Head(rest) >> \o Tail(rest)

\* "/".join(parts)
RECURSIVE Join(_)
Join(parts) ==
    IF Len(parts) = 0 THEN <<>>
    ELSE IF Len(parts) = 1 THEN parts[1]
    ELSE parts[1] \o <<"/">> \o Join(Tail(parts))

\* re.match(r"^\d+$", part)
IsNumeric(part) ==
    /\ part # <<>>
    /\ \A k \in 1..Len(part) : part[k] = "7"

\* re.match(r"^[0-9a-f]{8}-[0-9a-f]{4}-...-[0-9a-f]{12}$", part, re.IGNORECASE)
IsUuid(part) == part = <<"UUID">>

\* mutant: UUID-shaped segments are left as they are
NormalizePart_Mut(part) ==
    IF IsNumeric(part) THEN <<"{id}">> ELSE part

\* body of the loop over parts
NormalizePart(part) ==
    IF IsNumeric(part) THEN <<"{id}">>
    ELSE IF IsUuid(part) THEN <<"{uuid}">>
    ELSE part

\* mutant: the slashes at both ends are not stripped
_normalize_path_Mut(p) ==
    LET parts == Split(p)
    IN  <<"/">> \o Join([k \in 1..Len(parts) |-> NormalizePart(parts[k])])

_normalize_path(p) ==
    LET parts == Split(Strip(p))
    IN  <<"/">> \o Join([k \in 1..Len(parts) |-> NormalizePart(parts[k])])

NormInit ==
    /\ npc = "start"
    /\ path \in SeqsUpTo(PathAtoms, MaxPathLen)
    /\ normalized = <<>>
    /\ renormalized = <<>>

\* normalized = _normalize_path(path)
NormalizeOnce ==
    /\ npc = "start"
    /\ normalized' = _normalize_path(path)
    /\ npc' = "once"
    /\ UNCHANGED <<path, renormalized>>
    /\ UNCHANGED non_norm_vars

\* renormalized = _normalize_path(normalized)
NormalizeAgain ==
    /\ npc = "once"
    /\ renormalized' = _normalize_path(normalized)
    /\ npc' = "twice"
    /\ UNCHANGED <<path, normalized>>
    /\ UNCHANGED non_norm_vars

NormNext ==
    \/ NormalizeOnce
    \/ NormalizeAgain

-----------------------------------------------------------------------------
(* HTTPExchange: models/interactions.py *)

\* A JSON value: its Python type and, for a dict, its items in order.
PyValue(t, items) == [type |-> t, items |-> items]
PyNone == PyValue("none", <<>>)
Item(k, v) == [key |-> k, value |-> v]

IdDict == PyValue("dict", <<Item("id", PyValue("int", <<>>))>>)
UserDict ==
    PyValue("dict",
            <<Item("name", PyValue("str", <<>>)),
              Item("active", PyValue("bool", <<>>)),
              Item("score", PyValue("float", <<>>)),
              Item("tags", PyValue("list", <<>>)),
              Item("deleted", PyValue("none", <<>>)),
              Item("owner", IdDict)>>)

\* a header dict: (name, value) pairs in insertion order, names distinct
Header(k, v) == [name |-> k, value |-> v]

HTTPExchange(m, p, qp, rh, rct, rb, sc, pct, pb) ==
    [method |-> m, path |-> p, query_params |-> qp,
     request_headers |-> rh, request_content_type |-> rct,
     request_body |-> rb, status_code |-> sc,
     response_content_type |-> pct, response_body |-> pb]

\* "json" in content_type; None and "" are both falsy
HasJson(ct) == ct = "application/json"

is_json_request(ex) == HasJson(ex.request_content_type)

is_json_response(ex) == HasJson(ex.response_content_type)

\* mutant: every status counts as a success
is_success_Mut(ex) == ex.status_code >= 0

is_success(ex) == 200 <= ex.status_code /\ ex.status_code < 400

\* str.lower() on the header names of the model
HeaderLower(k) ==
    CASE k = "X-Token" -> "x-token"
      [] k = "x-token" -> "x-token"
      [] k = "X-Api-Key" -> "x-api-key"
      [] k = "Accept" -> "accept"
      [] k = "Accept-Charset" -> "accept-charset"
      [] k = "Authorization" -> "authorization"
      [] k = "authorization" -> "authorization"
      [] k = "Cookie" -> "cookie"

\* str.startswith on the header values of the model
StartsWith(v, prefix) ==
    \/ prefix = "Bearer " /\ v = "Bearer abc"
    \/ prefix = "Basic " /\ v = "Basic dXNlcg=="

-----------------------------------------------------------------------------
(* MapperAgent: agents/mapper/api_mapper.py *)

Range(q) == {q[k] : k \in 1..Len(q)}

\* mutant: exchanges are grouped by the path as recorded
GroupKey_Mut(ex) == [method |-> ex.method, path |-> ex.path]

\* the dict key (ex.method, normalized)
GroupKey(ex) == [method |-> ex.method, path |-> _normalize_path(ex.path)]

\* "for ex in exchanges: grouped[(ex.method, normalized)].append(ex)": a
\* defaultdict(list), kept as its items in insertion order
RECURSIVE Group(_, _)
Group(g, exs) ==
    IF exs = <<>> THEN g
    ELSE LET ex == Head(exs)
             appended ==
                IF \E k \in 1..Len(g) : g[k].key = GroupKey(ex)
                THEN [k \in 1..Len(g) |->
                         IF g[k].key = GroupKey(ex)
                         THEN [g[k] EXCEPT !.exs = Append(@, ex)]
                         ELSE g[k]]
                ELSE Append(g, [key |-> GroupKey(ex), exs |-> <<ex>>])
         IN  Group(appended, Tail(exs))

\* order of the path atoms as Python strings: "/" < digits < hex letters
\* < "u" < "{"; no atom is a prefix of another, so the order of two paths
\* is decided by their first differing atom
AtomRank(a) ==
    CASE a = "/" -> 1
      [] a = "7" -> 2
      [] a = "UUID" -> 3
      [] a = "u" -> 4
      [] a = "{id}" -> 5
      [] a = "{uuid}" -> 6

RECURSIVE PathLess(_, _)
PathLess(p, q) ==
    IF q = <<>> THEN FALSE
    ELSE IF p = <<>> THEN TRUE
    ELSE IF Head(p) # Head(q) THEN AtomRank(Head(p)) < AtomRank(Head(q))
    ELSE PathLess(Tail(p), Tail(q))

\* tuple comparison (method, path) < (method, path); "GET" < "POST"
KeyLess(a, b) ==
    \/ a.method = "GET" /\ b.method = "POST"
    \/ a.method = b.method /\ PathLess(a.path, b.path)

\* mutant: the groups are taken in insertion order
Sorted_Mut(g) == g

\* sorted(grouped.items()): the keys are distinct, so the key decides; an
\* item's place is one more than the number of items with a smaller key
Sorted(g) ==
    [k \in 1..Len(g) |->
        CHOOSE item \in Range(g) :
            Cardinality({o \in Range(g) : KeyLess(o.key, item.key)}) = k - 1]

\* an optional schema: None is [present |-> FALSE]
NoSchema == [present |-> FALSE, fields |-> <<>>]
SomeSchema(fields) == [present |-> TRUE, fields |-> fields]

\* _infer_schema(data): one entry per key, a nested dict is inferred in turn
RECURSIVE _infer_schema(_)
_infer_schema(data) ==
    [k \in 1..Len(data.items) |->
        LET v == data.items[k].value
            name == CASE v.type = "str" -> "string"
                      [] v.type = "bool" -> "boolean"
                      [] v.type = "int" -> "integer"
                      [] v.type = "float" -> "number"
                      [] v.type = "list" -> "array"
                      [] v.type = "none" -> "nullable"
                      [] v.type = "dict" -> "object"
        IN  [key |-> data.items[k].key, type |-> name,
             fields |-> IF v.type = "dict" THEN _infer_schema(v) ELSE <<>>]]

HasHeader(ex, lower) ==
    \E k \in 1..Len(ex.request_headers) :
        HeaderLower(ex.request_headers[k].name) = lower

\* next((v for k, v in headers.items() if k.lower() == lower), None);
\* None is "" here, both are falsy
HeaderValue(ex, lower) ==
    LET hits == SelectSeq(ex.request_headers,
                          LAMBDA h : HeaderLower(h.name) = lower)
    IN  IF hits = <<>> THEN "" ELSE Head(hits).value

\* auth_type: the first exchange with a non-empty Authorization value
\* decides, by the prefix of the value; "none" is None
AuthType(exs) ==
    LET given == SelectSeq(exs,
                    LAMBDA ex : HeaderValue(ex, "authorization") # "")
        v == HeaderValue(Head(given), "authorization")
    IN  IF given = <<>> THEN "none"
        ELSE IF StartsWith(v, "Bearer ") THEN "bearer"
        ELSE IF StartsWith(v, "Basic ") THEN "basic"
        ELSE "custom"

\* query_params and observed_status_codes are sorted lists of sets: the
\* parameter names are kept as the set, the codes are put in order.  The
\* response loop breaks at the first successful JSON response, whatever
\* its body is.
_build_endpoint_info(method, p, exs) ==
    LET codes == {exs[k].status_code : k \in 1..Len(exs)}
        auth_required ==
            \E k \in 1..Len(exs) : HasHeader(exs[k], "authorization")
        holes == SelectSeq(p, LAMBDA a : a \in {"{id}", "{uuid}"})
        json_requests ==
            SelectSeq(exs, LAMBDA ex :
                is_json_request(ex) /\ ex.request_body.type = "dict")
        json_responses ==
            SelectSeq(exs, LAMBDA ex : is_json_response(ex) /\ is_success(ex))
        with_body ==
            SelectSeq(exs, LAMBDA ex :
                /\ ex.request_body.type # "none"
                /\ ~(ex.request_body.type = "dict"
                     /\ ex.request_body.items = <<>>))
    IN  [method |-> method,
         path |-> p,
         request_schema |->
            IF json_requests = <<>> THEN NoSchema
            ELSE SomeSchema(_infer_schema(Head(json_requests).request_body)),
         response_schema |->
            IF json_responses # <<>>
               /\ Head(json_responses).response_body.type = "dict"
            THEN SomeSchema(_infer_schema(Head(json_responses).response_body))
            ELSE NoSchema,
         auth_required |-> auth_required,
         auth_type |-> IF auth_required THEN AuthType(exs) ELSE "none",
         query_params |-> UNION {exs[k].query_params : k \in 1..Len(exs)},
         path_params |->
            [k \in 1..Len(holes) |->
                IF holes[k] = "{id}" THEN "id" ELSE "uuid"],
         observed_status_codes |->
            [k \in 1..Cardinality(codes) |->
                CHOOSE c \in codes :
                    Cardinality({o \in codes : o < c}) = k - 1],
         sample_request |->
            IF with_body = <<>> THEN PyNone ELSE Head(with_body).request_body,
         sample_response |->
            IF json_responses = <<>> THEN PyNone
            ELSE Head(json_responses).response_body]

\* f"{ep.method} {ep.path}"
EndpointName(ep) == <<ep.method, " ">> \o ep.path

\* ep.path.strip("/").split("/")[0] if ep.path != "/" else ""
Resource(ep) ==
    IF ep.path = <<"/">> THEN <<>> ELSE Split(Strip(ep.path))[1]

\* mutant: an endpoint with path parameters can be a creator too
IsCreator_Mut(ep) == ep.method = "POST" /\ Resource(ep) # <<>>

\* ep.method == "POST" and not ep.path_params, with a non-empty resource
IsCreator(ep) ==
    /\ ep.method = "POST"
    /\ ep.path_params = <<>>
    /\ Resource(ep) # <<>>

\* resource_creators after the first loop: a later creator of the same
\* resource replaces the earlier one
RECURSIVE ResourceCreators(_, _)
ResourceCreators(rc, eps) ==
    IF eps = <<>> THEN rc
    ELSE LET ep == Head(eps)
             res == Resource(ep)
             entry == [resource |-> res, creator |-> EndpointName(ep)]
             next ==
                IF ~IsCreator(ep) THEN rc
                ELSE IF \E k \in 1..Len(rc) : rc[k].resource = res
                THEN [k \in 1..Len(rc) |->
                         IF rc[k].resource = res THEN entry ELSE rc[k]]
                ELSE Append(rc, entry)
         IN  ResourceCreators(next, Tail(eps))

\* deps after the second loop: a dict, kept as its items in insertion order
\* (the endpoint names are distinct)
_detect_dependencies(eps) ==
    LET rc == ResourceCreators(<<>>, eps)
        dependent ==
            SelectSeq(eps, LAMBDA ep :
                /\ ep.path_params # <<>>
                /\ \E k \in 1..Len(rc) : rc[k].resource = Resource(ep))
    IN  [k \in 1..Len(dependent) |->
            [key |-> EndpointName(dependent[k]),
             depends_on |->
                <<(CHOOSE e \in Range(rc) :
                      e.resource = Resource(dependent[k])).creator>>]]

\* sorted(patterns), kept as the set
_detect_auth_patterns(exs) ==
    LET of_header(h) ==
            IF HeaderLower(h.name) = "authorization"
            THEN IF StartsWith(h.value, "Bearer ") THEN {"Bearer token"}
                 ELSE IF StartsWith(h.value, "Basic ") THEN {"Basic auth"}
                 ELSE {"Custom auth header"}
            ELSE IF HeaderLower(h.name) = "x-api-key"
            THEN {"API key header"}
            ELSE {}
        of_exchange(ex) ==
            UNION {of_header(h) : h \in Range(ex.request_headers)}
            \cup (IF HasHeader(ex, "cookie")
                  THEN {"Cookie-based session"} ELSE {})
    IN  UNION {of_exchange(ex) : ex \in Range(exs)}

\* {k.lower(): v for k, v in headers.items()}: a repeated lower-case name
\* keeps its place and takes the later value
RECURSIVE LowerHeaders(_, _)
LowerHeaders(d, hs) ==
    IF hs = <<>> THEN d
    ELSE LET h == Header(HeaderLower(Head(hs).name), Head(hs).value)
             next ==
                IF \E k \in 1..Len(d) : d[k].name = h.name
                THEN [k \in 1..Len(d) |->
                         IF d[k].name = h.name THEN h ELSE d[k]]
                ELSE Append(d, h)
         IN  LowerHeaders(next, Tail(hs))

_detect_common_headers(exs) ==
    LET skip_headers ==
            {"host", "user-agent", "accept", "accept-encoding",
             "accept-language", "connection", "content-length",
             "content-type", "cookie", "authorization"}
    IN  IF exs = <<>> THEN <<>>
        ELSE SelectSeq(LowerHeaders(<<>>, exs[1].request_headers),
                       LAMBDA h :
                          /\ h.name \notin skip_headers
                          /\ \A k \in 1..Len(exs) : HasHeader(exs[k], h.name))

\* the endpoints list built from the sorted groups
Endpoints(g) ==
    LET items == Sorted(g)
    IN  [k \in 1..Len(items) |->
            _build_endpoint_info(items[k].key.method, items[k].key.path,
                                 items[k].exs)]

EmptyMap ==
    [endpoints |-> <<>>, auth_patterns |-> {}, common_headers |-> <<>>,
     dependencies |-> <<>>]

\* The recordings given to the mapper: traffic that differs in method and
\* path only, in the request body, in the response, or in the request
\* headers; up to n exchanges of the first kind and up to few of the others.
Recordings(n, few) ==
    LET by_path ==
            {HTTPExchange(m, p, {}, <<>>, "", PyNone, 200, "", PyNone) :
                m \in {"GET", "POST"},
                p \in {<<"/">>, <<"/", "u">>, <<"/", "u", "/", "u">>,
                       <<"/", "u", "/", "7">>, <<"/", "u", "/", "{id}">>,
                       <<"/", "u", "u", "/", "UUID">>, <<"7">>}}
        by_request ==
            {HTTPExchange("POST", p, {}, <<>>, ct, rb, 201, "", PyNone) :
                p \in {<<"/", "u">>, <<"/", "u", "/", "7">>},
                ct \in {"application/json", ""},
                rb \in {PyNone, PyValue("dict", <<>>), IdDict, UserDict,
                        PyValue("list", <<>>)}}
        by_response ==
            {HTTPExchange("GET", p, {}, <<>>, "", PyNone, sc, ct, pb) :
                p \in {<<"/", "u">>, <<"/", "u", "/", "7">>},
                sc \in {200, 404},
                ct \in {"application/json", "text/html"},
                pb \in {IdDict, UserDict, PyValue("list", <<>>)}}
        header_dicts ==
            {<<>>,
             <<Header("X-Token", "t1")>>,
             <<Header("x-token", "t2")>>,
             <<Header("X-Token", "t1"), Header("Accept-Charset", "utf-8")>>,
             <<Header("Accept-Charset", "utf-8"), Header("Accept", "*/*")>>,
             <<Header("Authorization", "Bearer abc"), Header("X-Token", "t1")>>,
             <<Header("Authorization", ""), Header("Cookie", "sid=1")>>,
             <<Header("authorization", "Token xyz"),
               Header("Accept-Charset", "utf-8")>>,
             <<Header("Authorization", "Basic dXNlcg=="),
               Header("X-Api-Key", "k"), Header("X-Token", "t1"),
               Header("x-token", "t2")>>}
        by_headers ==
            {HTTPExchange("GET", <<"/", "u">>, {}, rh, "", PyNone, 200, "",
                          PyNone) : rh \in header_dicts}
            \cup {HTTPExchange("GET", <<"/", "u", "u">>, {"page"}, rh, "",
                               PyNone, 200, "", PyNone) : rh \in header_dicts}
    IN  SeqsUpTo(by_path, n)
        \cup SeqsUpTo(by_request, few)
        \cup SeqsUpTo(by_response, few)
        \cup SeqsUpTo(by_headers, few)

MapInit ==
    /\ mpc = "start"
    /\ exchanges \in Recordings(MaxRecorded, MaxSamples)
    /\ grouped = <<>>
    /\ endpoint_map = EmptyMap

\* MapperAgent.run
MapperRun ==
    /\ mpc = "start"
    /\ grouped' = Group(<<>>, exchanges)
    /\ endpoint_map' =
          LET eps == Endpoints(Group(<<>>, exchanges))
          IN  [endpoints |-> eps,
               auth_patterns |-> _detect_auth_patterns(exchanges),
               common_headers |-> _detect_common_headers(exchanges),
               dependencies |-> _detect_dependencies(eps)]
    /\ mpc' = "done"
    /\ UNCHANGED exchanges
    /\ UNCHANGED non_map_vars

MapNext ==
    \/ MapperRun

-----------------------------------------------------------------------------
(* ValidatorAgent._score_test: agents/validator/quality.py *)

\* The scorer reads a test's source through regular expressions only; a
\* GeneratedTest is kept as what they find in it:
\*   asserts      len(re.findall(r"\bassert\b", code))
\*   status_code  re.search(r"status_code", code)
\*   body         re.search(r"\.json\(\)|response\.data|...", code)
\*   headers      re.search(r"headers", code)
\*   raises       re.search(r"pytest\.raises|Exception|Error", code)
\*   docstring    re.search(r'""".*?"""|...', code, re.DOTALL)
\*   line_count   len(code.strip().split("\n")), at least 1
\*   localhost    re.search(r'http://localhost:\d+', code)
\* The scores are exact, in thousandths; overall_score is in
\* ten-thousandths (0.4, 0.3 and 0.3 are 4, 3 and 3 tenths).

NoScore ==
    [assertion_count |-> 0, assertion_quality |-> 0, coverage_breadth |-> 0,
     readability |-> 0, overall_score |-> 0, issues |-> <<>>,
     suggestions |-> <<>>]

\* mutant: a test without assertions is scored like one with a single one
AssertionQuality_Mut(assertion_count) ==
    IF assertion_count <= 1 THEN 500
    ELSE IF assertion_count >= 4 THEN 1000 ELSE assertion_count * 250

\* 0.0, 0.5 or min(1.0, assertion_count / 4), before the status penalty
AssertionQuality(assertion_count) ==
    IF assertion_count = 0 THEN 0
    ELSE IF assertion_count = 1 THEN 500
    ELSE IF assertion_count >= 4 THEN 1000 ELSE assertion_count * 250

\* mutant: a docstring earns nothing
Readability_Mut(t) ==
    LET r == 700 - (IF t.line_count > 30 THEN 100 ELSE 0)
                 - (IF t.line_count < 3 THEN 200 ELSE 0)
    IN  IF r < 0 THEN 0 ELSE IF r > 1000 THEN 1000 ELSE r

\* 0.7, +0.1 with a docstring, -0.1 over 30 lines, -0.2 under 3 lines,
\* then max(0.0, min(1.0, readability))
Readability(t) ==
    LET r == 700 + (IF t.docstring THEN 100 ELSE 0)
                 - (IF t.line_count > 30 THEN 100 ELSE 0)
                 - (IF t.line_count < 3 THEN 200 ELSE 0)
    IN  IF r < 0 THEN 0 ELSE IF r > 1000 THEN 1000 ELSE r

_score_test(t) ==
    LET api == t.test_type = "api"
        unchecked == ~t.status_code /\ api
        base == AssertionQuality(t.asserts)
        assertion_quality == IF unchecked THEN (base * 7) \div 10 ELSE base
        signals == <<t.status_code, t.body, t.headers, t.raises>>
        coverage_breadth ==
            (1000 * Cardinality({k \in 1..4 : signals[k]})) \div 4
        readability == Readability(t)
        when(c, msg) == IF c THEN <<msg>> ELSE <<>>
    IN  [assertion_count |-> t.asserts,
         assertion_quality |-> assertion_quality,
         coverage_breadth |-> coverage_breadth,
         readability |-> readability,
         overall_score |->
            assertion_quality * 4 + coverage_breadth * 3 + readability * 3,
         issues |->
            when(t.asserts = 0, "No assertions found")
            \o when(unchecked, "Missing status code assertion")
            \o when(t.line_count < 3, "Test seems too short"),
         suggestions |->
            when(t.asserts = 1, "Consider adding more assertions")
            \o when(~t.body /\ api, "Consider asserting response body content")
            \o when(t.line_count > 30,
                    "Test is quite long, consider splitting")
            \o when(t.localhost,
                    "Consider using a base_url fixture instead of hardcoded URL")]

\* _score_test not in use
QualityIdle ==
    /\ qpc = "idle"
    /\ test = [asserts |-> 0, status_code |-> FALSE, body |-> FALSE,
               headers |-> FALSE, raises |-> FALSE, docstring |-> FALSE,
               line_count |-> 1, localhost |-> FALSE, test_type |-> "api"]
    /\ quality_score = NoScore

\* ValidatorAgent._score_test(test)
ScoreTest ==
    /\ qpc = "start"
    /\ quality_score' = _score_test(test)
    /\ qpc' = "scored"
    /\ UNCHANGED test
    /\ UNCHANGED <<core_vars, analyzer_vars, generator_vars, store_vars,
                   workdir_vars>>

QualityNext ==
    \/ ScoreTest

\* AnalyzerOutput, or the exception that left AnalyzerAgent.run; "none" is
\* no exception
AnalyzerOutput(raised, examples, common_imports) ==
    [raised |-> raised, golden_examples |-> examples,
     common_imports |-> common_imports]

\* AnalyzerAgent not in use
AnalyzerIdle ==
    /\ apc = "idle"
    /\ golden_file_paths = <<>>
    /\ golden_source_codes = <<>>
    /\ analyzer_output = AnalyzerOutput("none", <<>>, <<>>)

\* a TestSuite: the tests with their name and source, the shared imports
\* and the shared setup, each text a sequence of lines
TestSuite(tests, imports_code, setup_code) ==
    [tests |-> tests, imports_code |-> imports_code,
     setup_code |-> setup_code]

\* GeneratorAgent not in use
GeneratorIdle ==
    /\ gpc = "idle"
    /\ generator_input = [raw_response |-> <<>>, common_imports |-> <<>>]
    /\ test_suite = TestSuite(<<>>, <<>>, <<>>)
    /\ file_content = <<>>
    /\ split_again = <<>>

\* an optional EndpointMap: None is [present |-> FALSE]
StoredMap(present, endpoints) ==
    [present |-> present, endpoints |-> endpoints]

\* AppContext as ContextStore.create builds it.  tested_endpoints holds
\* (method, path) keys for the "METHOD /path" strings; untested_endpoints,
\* a sorted list of distinct strings, is kept as the set.
NewContext ==
    [endpoint_map |-> StoredMap(FALSE, <<>>), known_test_names |-> <<>>,
     tested_endpoints |-> <<>>, untested_endpoints |-> {},
     run_history |-> <<>>, total_tests_generated |-> 0,
     total_tests_passed |-> 0, total_tests_failed |-> 0]

\* an optional TestSuite argument: None is [present |-> FALSE]
NoSuite == [present |-> FALSE, tests |-> <<>>]

\* ContextStore not in use: a context nobody has updated
StoreIdle ==
    /\ ctx = NewContext
    /\ context_file = NewContext
    /\ update = [endpoint_map |-> StoredMap(FALSE, <<>>),
                 test_suite |-> NoSuite]

\* ExecutorInput.working_dir: None is [present |-> FALSE]
NoDir == [root |-> "", n |-> 0]
WorkingDir(present, dir) == [present |-> present, dir |-> dir]

\* an ExecutorAgent.run call that has not been made yet
NotInvoked ==
    [state |-> "new", working_dir |-> WorkingDir(FALSE, NoDir),
     test_dir |-> NoDir, suite |-> "", files |-> {}]

\* no ExecutorAgent.run call made, nothing on disk
WorkdirIdle ==
    /\ directories = {}
    /\ invocation = [r \in 1..MaxInvocations |-> NotInvoked]

\* the components that are modelled as one call each, not in use
UnitIdle ==
    QualityIdle /\ AnalyzerIdle /\ GeneratorIdle /\ StoreIdle /\ WorkdirIdle

-----------------------------------------------------------------------------
(* Specifications *)

\* the pipeline variables while only the Executor is exercised
PipeIdle ==
    /\ request = [mode |-> "other", execute_tests |-> FALSE,
                  golden |-> 0, exchanges |-> 0]
    /\ pc = "idle"
    /\ config = NoConfig
    /\ result = EmptyResult
    /\ execution_result = NoExecution
    /\ calls = <<>>
    /\ response = NoResponse

\* detect_flaky_tests not in use
FlakyIdle ==
    /\ fpc = "idle"
    /\ runs = 0
    /\ started = 0
    /\ finished = 0
    /\ results_per_test = <<>>
    /\ flaky = <<>>
    /\ run_log = <<>>

\* MapperAgent not in use
MapIdle ==
    /\ mpc = "idle"
    /\ exchanges = <<>>
    /\ grouped = <<>>
    /\ endpoint_map = EmptyMap

\* _normalize_path not in use
NormIdle ==
    /\ npc = "idle"
    /\ path = <<>>
    /\ normalized = <<>>
    /\ renormalized = <<>>

\* one ExecutorAgent.run call with its child process
InitExec ==
    ExecInit /\ PipeIdle /\ FlakyIdle /\ MapIdle /\ NormIdle /\ UnitIdle
SpecExec == InitExec /\ [][ExecNext]_vars

\* one run_pipeline call
InitPipe ==
    PipeInit /\ ExecInit /\ FlakyIdle /\ MapIdle /\ NormIdle /\ UnitIdle
SpecPipe == InitPipe /\ [][PipeNext]_vars

-----------------------------------------------------------------------------
(* _parse_pytest_output on the transcripts pytest -v --tb=short prints:    *)
(* status lines, then a FAILURES section of blocks, then the summary       *)

RECURSIVE Flatten(_)
Flatten(ss) == IF ss = <<>> THEN <<>> ELSE Head(ss) \o Flatten(Tail(ss))

StatusParts ==
    UNION {[1..n -> {StatusLine(nm, w) : nm \in Names, w \in StatusWords}] :
              n \in 0..MaxStatusLines}

BlockBodies ==
    {<<TextLine("assert")>>, <<TextLine("in test"), TextLine("assert")>>}

FailureBlocks == {<<BlockHeader(n)>> \o b : n \in Names, b \in BlockBodies}

FailureSections ==
    {<<>>} \cup
    {<<FailuresBanner>> \o Flatten(bs) :
        bs \in UNION {[1..n -> FailureBlocks] : n \in 0..MaxBlocks}}

SummaryParts ==
    {<<>>, <<Banner("1 passed in 0.05s")>>}
    \cup {<<Banner("short test summary info"), SummaryLine(n),
            Banner("1 failed, 1 passed in 0.05s")>> : n \in Names}

PytestTranscripts ==
    {st \o fs \o sm : st \in StatusParts, fs \in FailureSections,
                      sm \in SummaryParts}

ParseInit ==
    /\ xpc = "parse"
    /\ proc = "exited"
    /\ stdout \in PytestTranscripts
    /\ returncode = -1
    /\ files = {}
    /\ test_results = <<>>

\* test_results = self._parse_pytest_output(stdout, stderr)
Parse ==
    /\ xpc = "parse"
    /\ test_results' = _parse_pytest_output(stdout)
    /\ xpc' = "parsed"
    /\ UNCHANGED <<proc, stdout, returncode, files>>
    /\ UNCHANGED non_exec_vars

ParseNext == Parse

\* one _parse_pytest_output call on a pytest transcript
InitParse ==
    ParseInit /\ PipeIdle /\ FlakyIdle /\ MapIdle /\ NormIdle /\ UnitIdle
SpecParse == InitParse /\ [][ParseNext]_vars

\* one detect_flaky_tests call
InitFlaky ==
    FlakyInit /\ ExecInit /\ PipeIdle /\ MapIdle /\ NormIdle /\ UnitIdle
SpecFlaky == InitFlaky /\ [][FlakyNext]_vars

\* _normalize_path applied to a path and to its own result
InitNorm ==
    NormInit /\ ExecInit /\ PipeIdle /\ FlakyIdle /\ MapIdle /\ UnitIdle
SpecNorm == InitNorm /\ [][NormNext]_vars

\* one MapperAgent.run call on a recording
InitMap ==
    MapInit /\ ExecInit /\ PipeIdle /\ FlakyIdle /\ NormIdle /\ UnitIdle
SpecMap == InitMap /\ [][MapNext]_vars

\* the executor, the pipelines, the flakiness loop and the mapper at rest
CoreIdle == ExecInit /\ PipeIdle /\ FlakyIdle /\ MapIdle /\ NormIdle

\* one _score_test call on a candidate test
InitQuality ==
    /\ qpc = "start"
    /\ test \in [asserts : 0..MaxAsserts, status_code : BOOLEAN,
                 body : BOOLEAN, headers : BOOLEAN, raises : BOOLEAN,
                 docstring : BOOLEAN, line_count : 1..MaxLineCount,
                 localhost : BOOLEAN,
                 test_type : {"api", "ui", "integration", "unit"}]
    /\ quality_score = NoScore
    /\ CoreIdle
    /\ AnalyzerIdle
    /\ GeneratorIdle
    /\ StoreIdle
    /\ WorkdirIdle
SpecQuality == InitQuality /\ [][QualityNext]_vars

-----------------------------------------------------------------------------
(* AnalyzerAgent: agents/analyzer/pattern_extractor.py, ast_analyzer.py *)

\* An import statement as _extract_imports records it.  names is the text
\* after "import" of a from-import, alias the name after "as" ("" is None).
ImportPattern(module, names, alias, is_from_import) ==
    [module |-> module, names |-> names, alias |-> alias,
     is_from_import |-> is_from_import]

\* f"{imp.module}:{','.join(imp.names)}" if imp.is_from_import
\* else imp.module
ImportKey(imp) ==
    IF imp.is_from_import THEN <<imp.module, ":", imp.names>>
    ELSE <<imp.module>>

\* What parse_python_file extracts from a source: its top-level imports in
\* order.  The parser is error tolerant, so a source that is not Python
\* yields an example without imports.
Sources ==
    LET ImportPytest == ImportPattern("pytest", "", "", FALSE)
        ImportPytestAs == ImportPattern("pytest", "", "pt", FALSE)
        FromHttpx == ImportPattern("httpx", "Client", "", TRUE)
    IN  {<<>>, <<ImportPytest>>, <<FromHttpx>>, <<ImportPytest, FromHttpx>>,
         <<ImportPytestAs, ImportPytest>>}

\* A path of golden_file_paths with what is found there: nothing, a file
\* without the .py suffix, a .py file whose read_text raises (no
\* permission, a directory, bytes that are not UTF-8), or a .py file that
\* reads as one of Sources.
GoldenFiles ==
    {[exists |-> FALSE, py |-> TRUE, readable |-> FALSE, imports |-> <<>>],
     [exists |-> TRUE, py |-> FALSE, readable |-> TRUE, imports |-> <<>>],
     [exists |-> TRUE, py |-> TRUE, readable |-> FALSE, imports |-> <<>>]}
    \cup {[exists |-> TRUE, py |-> TRUE, readable |-> TRUE, imports |-> s] :
             s \in Sources}

GoldenExample(imports) == [imports |-> imports]

\* The loop of parse_golden_files: a path that does not exist or has no
\* .py suffix is passed over, read_text of any other path is not guarded.
parse_golden_files(file_paths) ==
    LET parsed == SelectSeq(file_paths, LAMBDA f : f.exists /\ f.py)
    IN  IF \E k \in 1..Len(parsed) : ~parsed[k].readable
        THEN [raised |-> "OSError", examples |-> <<>>]
        ELSE [raised |-> "none",
              examples |-> [k \in 1..Len(parsed) |->
                               GoldenExample(parsed[k].imports)]]

\* max(1, len(examples) // 2)
Threshold(examples) ==
    IF Len(examples) \div 2 >= 1 THEN Len(examples) \div 2 ELSE 1

\* common_imports of _build_style_guide: import_counter counts the
\* statements of all examples by key; the first statement of each key that
\* reaches the threshold is kept.  The other fields of the style guide do
\* not depend on the imports' frequency and are not kept.
_build_style_guide(examples) ==
    LET all_imports == Flatten([k \in 1..Len(examples) |-> examples[k].imports])
        import_counter(key) ==
            Cardinality({k \in 1..Len(all_imports) :
                            ImportKey(all_imports[k]) = key})
        kept == {k \in 1..Len(all_imports) :
                    /\ import_counter(ImportKey(all_imports[k]))
                          >= Threshold(examples)
                    /\ \A j \in 1..(k - 1) :
                          ImportKey(all_imports[j]) # ImportKey(all_imports[k])}
    IN  [n \in 1..Cardinality(kept) |->
            all_imports[CHOOSE k \in kept :
                           Cardinality({j \in kept : j < k}) = n - 1]]

\* AnalyzerAgent.run
AnalyzerRun ==
    /\ apc = "start"
    /\ analyzer_output' =
          LET from_files ==
                 IF golden_file_paths # <<>>
                 THEN parse_golden_files(golden_file_paths)
                 ELSE [raised |-> "none", examples |-> <<>>]
              examples ==
                 from_files.examples
                 \o [k \in 1..Len(golden_source_codes) |->
                        GoldenExample(golden_source_codes[k])]
          IN  IF from_files.raised # "none"
              THEN AnalyzerOutput(from_files.raised, <<>>, <<>>)
              ELSE IF examples = <<>>
              THEN AnalyzerOutput("ValueError", <<>>, <<>>)
              ELSE AnalyzerOutput("none", examples,
                                  _build_style_guide(examples))
    /\ apc' = "done"
    /\ UNCHANGED <<golden_file_paths, golden_source_codes>>
    /\ UNCHANGED <<core_vars, quality_vars, generator_vars, store_vars,
                   workdir_vars>>

AnalyzerNext ==
    \/ AnalyzerRun

\* one AnalyzerAgent.run call on a batch of files and uploaded sources
InitAnalyzer ==
    /\ apc = "start"
    /\ golden_file_paths \in SeqsUpTo(GoldenFiles, MaxFiles)
    /\ golden_source_codes \in SeqsUpTo(Sources, MaxSources)
    /\ analyzer_output = AnalyzerOutput("none", <<>>, <<>>)
    /\ CoreIdle
    /\ QualityIdle
    /\ GeneratorIdle
    /\ StoreIdle
    /\ WorkdirIdle
SpecAnalyzer == InitAnalyzer /\ [][AnalyzerNext]_vars

-----------------------------------------------------------------------------
(* GeneratorAgent._parse_response: agents/generator/api_test_gen.py        *)
(* TestSuite.to_file_content: models/test_model.py                         *)
(*                                                                         *)
(* A source text is a sequence of lines [kind, name]:                      *)
(*   import  "import pytest"                                               *)
(*   text    "class TestApi:" (name "class"), "async", "assert 1": other   *)
(*           text at the left margin                                       *)
(*   dec     "@pytest.mark.api"                                            *)
(*   def     "def <name>():"                                               *)
(*   adef    "async def <name>():"                                         *)
(*   mdef    "    def <name>(self):"                                       *)
(*   body    "    assert 1"                                                *)
(*   blank   ""                                                            *)
(* The regular expressions see a "def test_" in a def, adef or mdef line,  *)
(* and a newline followed by "@" or "def test_" before a dec or def line.  *)

CodeLine(kind, name) == [kind |-> kind, name |-> name]

CodeAlphabet ==
    {CodeLine("import", ""), CodeLine("text", "class"), CodeLine("dec", ""),
     CodeLine("def", "test_a"), CodeLine("def", "test_b"),
     CodeLine("adef", "test_a"), CodeLine("mdef", "test_a"),
     CodeLine("body", ""), CodeLine("blank", "")}

\* str.strip() of a text: the blank lines at both ends go, and so does the
\* indentation of the first line that is left
StripCode(ls) ==
    LET filled == {k \in 1..Len(ls) : ls[k].kind # "blank"}
        first == ls[Min(filled)]
    IN  IF filled = {} THEN <<>>
        ELSE <<(CASE first.kind = "mdef" -> CodeLine("def", first.name)
                  [] first.kind = "body" -> CodeLine("text", "assert")
                  [] OTHER -> first)>>
             \o SubSeq(ls, Min(filled) + 1, Max(filled))

\* Where r"(?:@[\w.]+(?:\(.*?\))?\s*\n)*def test_" first matches at or after
\* line pos: at the first line h that holds "def test_", or, when that is
\* a def line, at the first of the decorator lines that lead up to it with
\* nothing but blank lines between (s).  h = 0 when there is no match.
FirstTest(ls, pos) ==
    LET holds == {k \in pos..Len(ls) : ls[k].kind \in {"def", "adef", "mdef"}}
        h == Min(holds)
        decorated ==
            {s \in pos..h :
                /\ ls[h].kind = "def"
                /\ ls[s].kind = "dec"
                /\ \A k \in s..(h - 1) : ls[k].kind \in {"dec", "blank"}}
    IN  IF holds = {} THEN [h |-> 0, s |-> 0]
        ELSE [h |-> h, s |-> IF decorated = {} THEN h ELSE Min(decorated)]

\* re.findall of the pattern of _extract_test_functions from line pos on:
\* a match runs from FirstTest to just before the next dec or def line or,
\* when the text ends with a newline (terminated), to the end of the text;
\* a "def test_" with neither after it matches nothing.
RECURSIVE RegexMatches(_, _, _)
RegexMatches(ls, pos, terminated) ==
    LET at == FirstTest(ls, pos)
        head == IF at.s = at.h
                THEN <<CodeLine("def", ls[at.h].name)>>
                ELSE SubSeq(ls, at.s, at.h)
        ahead == {t \in (at.h + 1)..Len(ls) : ls[t].kind \in {"dec", "def"}}
    IN  IF at.h = 0 THEN <<>>
        ELSE IF ahead # {}
        THEN <<head \o SubSeq(ls, at.h + 1, Min(ahead) - 1)>>
             \o RegexMatches(ls, Min(ahead), terminated)
        ELSE IF terminated
        THEN <<head \o SubSeq(ls, at.h + 1, Len(ls))>>
        ELSE <<>>

GeneratedTest(name, source_code) ==
    [name |-> name, source_code |-> source_code]

\* _extract_test_functions(code).  Without a match of the pattern, the
\* code is cut before every def line but the first line and the pieces
\* with a "def test_" are kept.  The id is random and the target endpoint
\* is read off the body; neither is kept.
_extract_test_functions(code, terminated) ==
    LET found == RegexMatches(code, 1, terminated)
        cuts == {1} \cup {k \in 2..Len(code) : code[k].kind = "def"}
        piece(c) ==
            SubSeq(code, c,
                   IF \E d \in cuts : d > c
                   THEN Min({d \in cuts : d > c}) - 1 ELSE Len(code))
        kept == {c \in cuts :
                    /\ code # <<>>
                    /\ \E k \in 1..Len(piece(c)) :
                          piece(c)[k].kind \in {"def", "adef", "mdef"}}
        parts ==
            [n \in 1..Cardinality(kept) |->
                piece(CHOOSE c \in kept :
                         Cardinality({d \in kept : d < c}) = n - 1)]
        matches == IF found # <<>> THEN found ELSE parts
    IN  [n \in 1..Len(matches) |->
            LET match == StripCode(matches[n])
            IN  GeneratedTest(match[FirstTest(match, 1).h].name, match)]

\* _extract_preamble(code): the text before the first test, split into the
\* leading import and blank lines and the rest
_extract_preamble(code) ==
    LET at == FirstTest(code, 1)
        preamble ==
            StripCode(SubSeq(code, 1, at.s - 1)
                      \o (IF at.s = at.h /\ code[at.h].kind = "adef"
                          THEN <<CodeLine("text", "async")>> ELSE <<>>))
        others == {k \in 1..Len(preamble) :
                      preamble[k].kind \notin {"import", "blank"}}
        cut == IF others = {} THEN Len(preamble) + 1 ELSE Min(others)
    IN  IF at.h = 0 THEN [imports |-> <<>>, setup |-> <<>>]
        ELSE [imports |-> StripCode(SubSeq(preamble, 1, cut - 1)),
              setup |-> StripCode(SubSeq(preamble, cut, Len(preamble)))]

\* _parse_response(raw, input_data).  The answer is taken without its
\* markdown fence; imports missing from it are rebuilt from the style
\* guide's common imports.
_parse_response(input) ==
    LET code == StripCode(input.raw_response)
        preamble == _extract_preamble(code)
    IN  TestSuite(_extract_test_functions(code, FALSE),
                  IF preamble.imports = <<>> THEN input.common_imports
                  ELSE preamble.imports,
                  preamble.setup)

\* TestSuite.to_file_content(): "\n\n\n".join(parts) + "\n", as the lines
\* of the file
to_file_content(suite) ==
    LET parts ==
            (IF suite.imports_code # <<>>
             THEN <<StripCode(suite.imports_code)>> ELSE <<>>)
            \o (IF suite.setup_code # <<>>
                THEN <<StripCode(suite.setup_code)>> ELSE <<>>)
            \o [n \in 1..Len(suite.tests) |->
                   StripCode(suite.tests[n].source_code)]
        between(n) ==
            IF n = 1 THEN <<>>
            ELSE <<CodeLine("blank", ""), CodeLine("blank", "")>>
    IN  IF parts = <<>> THEN <<CodeLine("blank", "")>>
        ELSE Flatten([n \in 1..Len(parts) |-> between(n) \o parts[n]])

\* GeneratorAgent.run after the generation service has answered
ParseResponse ==
    /\ gpc = "start"
    /\ test_suite' = _parse_response(generator_input)
    /\ gpc' = "parsed"
    /\ UNCHANGED <<generator_input, file_content, split_again>>
    /\ UNCHANGED <<core_vars, quality_vars, analyzer_vars, store_vars,
                   workdir_vars>>

\* test_suite.to_file_content()
Render ==
    /\ gpc = "parsed"
    /\ file_content' = to_file_content(test_suite)
    /\ gpc' = "rendered"
    /\ UNCHANGED <<generator_input, test_suite, split_again>>
    /\ UNCHANGED <<core_vars, quality_vars, analyzer_vars, store_vars,
                   workdir_vars>>

\* _extract_test_functions(file_content)
SplitAgain ==
    /\ gpc = "rendered"
    /\ split_again' = _extract_test_functions(file_content, TRUE)
    /\ gpc' = "split"
    /\ UNCHANGED <<generator_input, test_suite, file_content>>
    /\ UNCHANGED <<core_vars, quality_vars, analyzer_vars, store_vars,
                   workdir_vars>>

GeneratorNext ==
    \/ ParseResponse
    \/ Render
    \/ SplitAgain

\* one answer of the generation service, parsed, rendered and split again
InitGenerator ==
    /\ gpc = "start"
    /\ generator_input \in
          [raw_response : SeqsUpTo(CodeAlphabet, MaxCodeLines),
           common_imports : {<<>>, <<CodeLine("import", "")>>}]
    /\ test_suite = TestSuite(<<>>, <<>>, <<>>)
    /\ file_content = <<>>
    /\ split_again = <<>>
    /\ CoreIdle
    /\ QualityIdle
    /\ AnalyzerIdle
    /\ StoreIdle
    /\ WorkdirIdle
SpecGenerator == InitGenerator /\ [][GeneratorNext]_vars

-----------------------------------------------------------------------------
(* ContextStore.update_from_run: context_store.py *)

\* An endpoint as the store reads it: its key (method, path) and, standing
\* for the rest of the EndpointInfo, its observed status codes.
EndpointInfo(method, p, codes) ==
    [method |-> method, path |-> p, observed_status_codes |-> codes]

EndpointKey(ep) == <<ep.method, ep.path>>

StoredEndpoints ==
    {EndpointInfo(m, "/u", codes) :
        m \in {"GET", "POST"}, codes \in {<<200>>, <<200, 404>>}}

\* endpoint maps in which no (method, path) occurs twice
UniquelyKeyed(n) ==
    {eps \in SeqsUpTo(StoredEndpoints, n) :
        \A i, j \in 1..Len(eps) :
            EndpointKey(eps[i]) = EndpointKey(eps[j]) => i = j}

\* the test suites given to the store: none, or one test with its target
SuitesRun ==
    {NoSuite,
     [present |-> TRUE,
      tests |-> <<[name |-> "test_a", target_method |-> "GET",
                   target_endpoint |-> "/u"]>>],
     [present |-> TRUE,
      tests |-> <<[name |-> "test_b", target_method |-> "",
                   target_endpoint |-> ""]>>]}

\* mutant: every endpoint of the run is appended
MergeEndpoints_Mut(stored, incoming) ==
    IF ~incoming.present THEN stored
    ELSE IF ~stored.present THEN incoming
    ELSE StoredMap(TRUE, stored.endpoints \o incoming.endpoints)

\* "Merge endpoint map": the first map is taken as it is; of a later one
\* the endpoints whose key was not stored before the call are appended
MergeEndpoints(stored, incoming) ==
    LET existing ==
            {EndpointKey(stored.endpoints[k]) :
                k \in 1..Len(stored.endpoints)}
    IN  IF ~incoming.present THEN stored
        ELSE IF ~stored.present THEN incoming
        ELSE StoredMap(TRUE,
                 stored.endpoints
                 \o SelectSeq(incoming.endpoints,
                              LAMBDA ep : EndpointKey(ep) \notin existing))

\* appends the items of a list that are not in it yet, one after the other
RECURSIVE AppendNew(_, _)
AppendNew(known, items) ==
    IF items = <<>> THEN known
    ELSE AppendNew(IF \E k \in 1..Len(known) : known[k] = Head(items)
                   THEN known ELSE Append(known, Head(items)),
                   Tail(items))

\* update_from_run(ctx, mode, test_suite, validation, endpoint_map) of an
\* observer run without a validation result; the run id and the time
\* stamps are not kept
update_from_run(c, suite, incoming) ==
    LET merged == MergeEndpoints(c.endpoint_map, incoming)
        names == [k \in 1..Len(suite.tests) |-> suite.tests[k].name]
        targeted ==
            SelectSeq(suite.tests,
                      LAMBDA t : t.target_method # "" /\ t.target_endpoint # "")
        tested ==
            AppendNew(c.tested_endpoints,
                      [k \in 1..Len(targeted) |->
                          <<targeted[k].target_method,
                            targeted[k].target_endpoint>>])
        run_record ==
            [mode |-> "observer", tests_generated |-> Len(suite.tests),
             tests_passed |-> 0, tests_failed |-> 0]
    IN  [endpoint_map |-> merged,
         known_test_names |-> AppendNew(c.known_test_names, names),
         tested_endpoints |-> tested,
         untested_endpoints |->
            IF merged.present
            THEN {EndpointKey(merged.endpoints[k]) :
                     k \in 1..Len(merged.endpoints)}
                 \ {tested[k] : k \in 1..Len(tested)}
            ELSE c.untested_endpoints,
         run_history |-> Append(c.run_history, run_record),
         total_tests_generated |->
            c.total_tests_generated + run_record.tests_generated,
         total_tests_passed |-> c.total_tests_passed + run_record.tests_passed,
         total_tests_failed |->
            c.total_tests_failed + run_record.tests_failed]

\* one update_from_run call, with the _save that ends it
UpdateFromRun ==
    /\ Len(ctx.run_history) < MaxUpdates
    /\ \E incoming \in
             {StoredMap(FALSE, <<>>)}
             \cup {StoredMap(TRUE, eps) : eps \in UniquelyKeyed(MaxEndpoints)},
          suite \in SuitesRun :
          /\ ctx' = update_from_run(ctx, suite, incoming)
          /\ context_file' = update_from_run(ctx, suite, incoming)
          /\ update' = [endpoint_map |-> incoming, test_suite |-> suite]
    /\ UNCHANGED <<core_vars, quality_vars, analyzer_vars, generator_vars,
                   workdir_vars>>

StoreNext ==
    \/ UpdateFromRun

\* a new context and the update_from_run calls made on it
InitStore ==
    /\ StoreIdle
    /\ CoreIdle
    /\ QualityIdle
    /\ AnalyzerIdle
    /\ GeneratorIdle
    /\ WorkdirIdle
SpecStore == InitStore /\ [][StoreNext]_vars

-----------------------------------------------------------------------------
(* ExecutorAgent.run, lines 40-60, called by several callers at once *)

\* directories under tempfile.gettempdir() named "testforge_<random>", and
\* other directories a caller may name
TempDirs == {[root |-> "tmp", n |-> k] : k \in 1..MaxInvocations}
CallerDirs == {[root |-> "work", n |-> k] : k \in 1..2}

\* mutant: the temporary directory may be one that exists
mkdtemp_Mut(existing) == TempDirs

\* tempfile.mkdtemp(prefix="testforge_"): creates a directory that did not
\* exist; the set of the directories it may return
mkdtemp(existing) == TempDirs \ existing

\* test_dir / f"test_{name}.py" and test_dir / "conftest.py"
FilesOf(test_dir, name) ==
    {[dir |-> test_dir,
      file |-> IF name = "s1" THEN "test_s1.py" ELSE "test_s2.py"],
     [dir |-> test_dir, file |-> "conftest.py"]}

\* run() up to the await of the child: the directory is chosen and made
\* and both files are written without the event loop taking over
ExecutorInvoke(r) ==
    /\ invocation[r].state = "new"
    /\ \E working_dir \in
             {WorkingDir(FALSE, NoDir)}
             \cup {WorkingDir(TRUE, d) : d \in CallerDirs \cup TempDirs},
          name \in {"s1", "s2"} :
          \E test_dir \in
                IF working_dir.present THEN {working_dir.dir}
                ELSE mkdtemp(directories) :
             /\ directories' = directories \cup {test_dir}
             /\ invocation' =
                   [invocation EXCEPT ![r] =
                       [state |-> "running", working_dir |-> working_dir,
                        test_dir |-> test_dir, suite |-> name,
                        files |-> FilesOf(test_dir, name)]]
    /\ UNCHANGED <<core_vars, quality_vars, analyzer_vars, generator_vars,
                   store_vars>>

\* the child has ended and run() returns
ExecutorReturn(r) ==
    /\ invocation[r].state = "running"
    /\ invocation' = [invocation EXCEPT ![r].state = "returned"]
    /\ UNCHANGED directories
    /\ UNCHANGED <<core_vars, quality_vars, analyzer_vars, generator_vars,
                   store_vars>>

WorkdirNext ==
    \/ \E r \in 1..MaxInvocations : ExecutorInvoke(r)
    \/ \E r \in 1..MaxInvocations : ExecutorReturn(r)

\* several ExecutorAgent.run calls on one event loop
InitWorkdir ==
    /\ WorkdirIdle
    /\ CoreIdle
    /\ QualityIdle
    /\ AnalyzerIdle
    /\ GeneratorIdle
    /\ StoreIdle
SpecWorkdir == InitWorkdir /\ [][WorkdirNext]_vars

-----------------------------------------------------------------------------
(* Properties *)

StagesCalled == {calls[i].stage : i \in 1..Len(calls)}

\* C1: whenever the Executor has returned its timeout result, the child
\* process it launched is no longer running.
C1_NoOrphanAfterTimeout ==
    (xpc = "returned" /\ test_results = TimeoutResult) => proc # "running"

\* C2: ExecutorAgent.run never raises; every failure, also of writing the
\* suite file or conftest.py, comes back as an Execution Result.
C2_ExecutorNeverRaises == xpc # "raised"

\* C3: once generation has succeeded, a failure of the Executor or of the
\* Validator leaves the run successful: the Validator stage still runs, the
\* suite is returned and success is true.
C3_DegradedRunSucceeds ==
    (pc = "done" /\ result.test_suite # "None") =>
        /\ "Validator" \in StagesCalled
        /\ response.test_file # ""
        /\ response.success

\* C4: in the final result of a golden or observer pipeline run,
\* success = false implies a non-empty error list and no test suite.
C4_FailedRunHasNoSuite ==
    (/\ pc \in {"respond", "done"}
     /\ request.mode \in {"golden", "observer", "combined"}
     /\ ~Success(result)) =>
        /\ result.errors # <<>>
        /\ result.test_suite = "None"

\* C5: run_pipeline never raises, in any mode: an exception of a stage is
\* caught and recorded in the error list.
C5_RunPipelineNeverRaises == pc # "raised"

StageTag(stage) ==
    CASE stage = "Analyzer" -> "Analyzer failed"
      [] stage = "Observer" -> "Observer failed"
      [] stage = "Mapper" -> "Mapper failed"
      [] stage = "Generator" -> "Generator failed"
      [] stage = "Executor" -> "Executor failed"
      [] stage = "Validator" -> "Validator failed"

\* call i is a failure of a fatal stage of the pipeline
FatalFailure(i) ==
    \/ /\ calls[i].outcome = "raise"
       /\ calls[i].stage \in {"Observer", "Mapper", "Generator"}
    \/ /\ calls[i].outcome = "raise"
       /\ calls[i].stage = "Analyzer"
       /\ request.mode = "golden"
    \/ /\ calls[i].outcome = "ok"
       /\ calls[i].stage = "Observer"
       /\ request.exchanges = 0

FatalMessage(i) ==
    IF calls[i].outcome = "raise" THEN StageTag(calls[i].stage)
    ELSE "No HTTP exchanges captured"

\* C6: a failure of a fatal stage (Analyzer of the golden pipeline, Observer,
\* zero exchanges, Mapper, Generator) is the last stage invocation of the
\* run, and the run ends with success = false and the error message.
C6_FatalStageShortCircuits ==
    \A i \in 1..Len(calls) :
        FatalFailure(i) =>
            /\ i = Len(calls)
            /\ pc \in {"respond", "done"}
            /\ result.errors = <<FatalMessage(i)>>
            /\ pc = "done" =>
                  /\ response.present
                  /\ ~response.success
                  /\ response.errors = result.errors

C6_Witness ==
    /\ pc = "done"
    /\ Len(calls) = 2
    /\ calls[2] = Call("Mapper", "raise", NoExecution)
    /\ ~response.success

\* C7: with execute_tests = false the Executor is never invoked, the
\* Validator is invoked without an Execution Result, no Executor error is
\* recorded and the run is successful unless another stage fails.
C7_ExecutionIsOptional ==
    ~request.execute_tests =>
        /\ "Executor" \notin StagesCalled
        /\ \A i \in 1..Len(result.errors) :
              result.errors[i] # "Executor failed"
        /\ \A i \in 1..Len(calls) :
              calls[i].stage = "Validator" =>
                  calls[i].execution_result = NoExecution
        /\ (pc = "done" /\ result.test_suite # "None") =>
              /\ "Validator" \in StagesCalled
              /\ calls[Len(calls)].outcome = "ok" => response.success

C7_Witness ==
    /\ pc = "done"
    /\ ~request.execute_tests
    /\ Len(calls) > 0
    /\ calls[Len(calls)] = Call("Validator", "ok", NoExecution)
    /\ result.validation_result.present
    /\ response.success

\* C8: every return of the Executor carries at least one per-test result,
\* whatever the transcript; the timeout path and the launch-failure path
\* return exactly one.
C8_AtLeastOneResult ==
    [][(xpc # "returned" /\ xpc' = "returned") =>
          /\ Len(test_results') >= 1
          /\ (TimeoutFires \/ xpc = "idle") => Len(test_results') = 1]_vars

C8_Witness ==
    /\ xpc = "returned"
    /\ proc = "exited"
    /\ stdout = <<>>
    /\ test_results = <<TestResult("<suite>", "passed", <<>>)>>

\* C9: on timeout the Executor returns exactly one result, named "<suite>",
\* with status timeout and a non-empty error message.
C9_TimeoutSingleResult ==
    [][TimeoutFires =>
          /\ Len(test_results') = 1
          /\ test_results'[1].test_name = "<suite>"
          /\ test_results'[1].status = "timeout"
          /\ test_results'[1].error_message # <<>>]_vars

C9_Witness ==
    /\ xpc = "returned"
    /\ proc = "running"
    /\ Len(test_results) = 1
    /\ test_results[1].status = "timeout"

\* the status lines of a transcript, in order
StatusLinesOf(out) == SelectSeq(out, LAMBDA l : l.kind = "status")

\* the lines of the FAILURES block of test n: from its header up to the next
\* block header or section banner
ExpectedBlock(out, n) ==
    LET h == Min({i \in 1..Len(out) : out[i] = BlockHeader(n)})
        stops == {j \in (h + 1)..Len(out) :
                     out[j].kind \in {"block", "banner", "failures"}}
        last == IF stops = {} THEN Len(out) ELSE Min(stops) - 1
    IN  SubSeq(out, h + 1, last)

\* the transcript of C10: test_a PASSED, test_b FAILED, one FAILURES section
\* holding a test_b block
C10_Case(out) ==
    /\ StatusLinesOf(out) =
          <<StatusLine("test_a", "PASSED"), StatusLine("test_b", "FAILED")>>
    /\ Cardinality({i \in 1..Len(out) : out[i].kind = "failures"}) = 1
    /\ Cardinality({i \in 1..Len(out) : out[i] = BlockHeader("test_b")}) = 1
    /\ \A i \in 1..Len(out) : out[i] # BlockHeader("test_a")

\* C10: such a transcript parses to exactly two entries, test_a passed and
\* test_b failed, and the error message of test_b is non-empty and equal to
\* the content of the test_b FAILURES block and nothing else.
C10_FailureBlockIsMessage ==
    (xpc = "parsed" /\ C10_Case(stdout)) =>
        /\ Len(test_results) = 2
        /\ test_results[1].test_name = "test_a"
        /\ test_results[1].status = "passed"
        /\ test_results[2].test_name = "test_b"
        /\ test_results[2].status = "failed"
        /\ test_results[2].error_message # <<>>
        /\ test_results[2].error_message = ExpectedBlock(stdout, "test_b")

\* the statuses of test n over the runs that returned, as a set
StatusesOver(log, n) ==
    UNION {{log[i][j].status :
               j \in {j \in 1..Len(log[i]) : log[i][j].test_name = n}} :
           i \in 1..Len(log)}

\* the test names the runs reported
NamesOver(log) ==
    UNION {{log[i][j].test_name : j \in 1..Len(log[i])} : i \in 1..Len(log)}

\* C11: when detect_flaky_tests returns after its N >= 2 runs, the returned
\* list holds exactly the test names whose recorded statuses over the runs
\* contain more than one distinct value, and holds no name twice.
C11_FlakyIsMoreThanOneStatus ==
    (fpc = "done" /\ runs >= 2) =>
        /\ Range(flaky) =
              {n \in NamesOver(run_log) :
                  Cardinality(StatusesOver(run_log, n)) > 1}
        /\ \A i, j \in 1..Len(flaky) : flaky[i] = flaky[j] => i = j

C11_Witness ==
    /\ fpc = "done"
    /\ runs = 3
    /\ \E k \in 1..Len(results_per_test) :
          /\ results_per_test[k].statuses = <<"passed", "passed", "failed">>
          /\ results_per_test[k].test_name \in Range(flaky)
    /\ \E k \in 1..Len(results_per_test) :
          /\ results_per_test[k].statuses = <<"passed", "passed", "passed">>
          /\ results_per_test[k].test_name \notin Range(flaky)

\* C12: the N runs are strictly sequential (at no time are two executor
\* invocations in progress), and a call with N >= 2 ends after exactly N
\* executor invocations.
C12_SequentialExactlyN ==
    /\ started - finished <= 1
    /\ (fpc \in {"done", "raised"} /\ runs >= 2) => started = runs

\* C13: a call with N < 2 returns the empty list without invoking the
\* Executor at all.
C13_TooFewRunsNoInvocation ==
    (fpc = "done" /\ runs < 2) =>
        /\ flaky = <<>>
        /\ started = 0
        /\ run_log = <<>>

C13_Witness ==
    /\ fpc = "done"
    /\ runs = 1
    /\ started = 0

C16_NormalizationIdempotent ==
    (npc = "twice") => renormalized = normalized

C16_Witness ==
    /\ npc = "twice"
    /\ path = <<"u", "/", "7", "/">>
    /\ normalized = <<"/", "u", "/", "{id}">>
    /\ renormalized = normalized

\* the (method, path) pairs of the endpoints of the map, in order
EndpointKeys ==
    [k \in 1..Len(endpoint_map.endpoints) |->
        [method |-> endpoint_map.endpoints[k].method,
         path |-> endpoint_map.endpoints[k].path]]

\* how often exchange e occurs in the groups
TimesGrouped(e) ==
    Cardinality({kj \in (1..Len(grouped)) \X (1..Len(exchanges)) :
                    /\ kj[2] <= Len(grouped[kj[1]].exs)
                    /\ grouped[kj[1]].exs[kj[2]] = e})

\* C14: grouping is a partition of the input: every exchange is in exactly
\* one group, the one keyed by its method and its normalized path; the
\* groups together hold exactly the input exchanges; and the map has exactly
\* one endpoint per distinct key.
C14_GroupingIsPartition ==
    (mpc = "done") =>
        /\ \A k \in 1..Len(grouped) : \A e \in Range(grouped[k].exs) :
              /\ grouped[k].key.method = e.method
              /\ grouped[k].key.path = _normalize_path(e.path)
        /\ \A k, l \in 1..Len(grouped) :
              grouped[k].key = grouped[l].key => k = l
        /\ \A e \in Range(exchanges) :
              TimesGrouped(e) =
                 Cardinality({i \in 1..Len(exchanges) : exchanges[i] = e})
        /\ \A k \in 1..Len(grouped) :
              Range(grouped[k].exs) \subseteq Range(exchanges)
        /\ Len(endpoint_map.endpoints) = Len(grouped)
        /\ \A k, l \in 1..Len(EndpointKeys) :
              EndpointKeys[k] = EndpointKeys[l] => k = l
        /\ Range(EndpointKeys) =
              {[method |-> e.method, path |-> _normalize_path(e.path)] :
                  e \in Range(exchanges)}

C14_Witness ==
    /\ mpc = "done"
    /\ Len(exchanges) = 3
    /\ Len(grouped) = 2
    /\ \E k \in 1..Len(grouped) :
          /\ Len(grouped[k].exs) = 2
          /\ grouped[k].exs[1].path # grouped[k].exs[2].path

\* C20: the endpoints of the map are in ascending order of (method, path),
\* whatever the order in which the exchanges were supplied.
C20_EndpointsAscending ==
    (mpc = "done") =>
        \A k, l \in 1..Len(EndpointKeys) :
            k < l => KeyLess(EndpointKeys[k], EndpointKeys[l])

C20_Witness ==
    /\ mpc = "done"
    /\ Len(grouped) = 3
    /\ KeyLess(grouped[3].key, grouped[1].key)
    /\ KeyLess(grouped[1].key, grouped[2].key)
    /\ EndpointKeys = <<grouped[3].key, grouped[1].key, grouped[2].key>>

\* the exchanges of the group an endpoint was built from
GroupOf(ep) ==
    (CHOOSE g \in Range(grouped) :
        g.key = [method |-> ep.method, path |-> ep.path]).exs

\* the exchanges of a group that carry a JSON object request body
JsonObjectRequests(exs) ==
    SelectSeq(exs, LAMBDA ex :
        HasJson(ex.request_content_type) /\ ex.request_body.type = "dict")

\* the exchanges of a group that carry a JSON object response body
JsonObjectResponses(exs) ==
    SelectSeq(exs, LAMBDA ex :
        HasJson(ex.response_content_type) /\ ex.response_body.type = "dict")

\* the exchanges of a group with a JSON response and a status in 200..399
SuccessfulJsonResponses(exs) ==
    SelectSeq(exs, LAMBDA ex :
        /\ HasJson(ex.response_content_type)
        /\ ex.status_code \in 200..399)

\* C17 as stated: for each endpoint, if an exchange of its group carries a
\* JSON object request (response) body, the request (response) schema is
\* present and is the schema of the first such exchange in input order.
C17_SchemaOfFirstJsonBody ==
    (mpc = "done") =>
        \A ep \in Range(endpoint_map.endpoints) :
            LET rq == JsonObjectRequests(GroupOf(ep))
                rs == JsonObjectResponses(GroupOf(ep))
            IN  /\ rq # <<>> =>
                      ep.request_schema =
                         SomeSchema(_infer_schema(Head(rq).request_body))
                /\ rs # <<>> =>
                      ep.response_schema =
                         SomeSchema(_infer_schema(Head(rs).response_body))

\* C17 amended: the request schema is that of the first exchange of the
\* group with a JSON object request body and is absent without one; the
\* response schema is decided by the first exchange of the group with a JSON
\* response and a success status alone: the schema of its body if that is an
\* object, absent otherwise and absent without such an exchange.
C17_SchemaOfFirstSample ==
    (mpc = "done") =>
        \A ep \in Range(endpoint_map.endpoints) :
            LET rq == JsonObjectRequests(GroupOf(ep))
                rs == SuccessfulJsonResponses(GroupOf(ep))
            IN  /\ ep.request_schema =
                      IF rq = <<>> THEN NoSchema
                      ELSE SomeSchema(_infer_schema(Head(rq).request_body))
                /\ ep.response_schema =
                      IF rs # <<>> /\ Head(rs).response_body.type = "dict"
                      THEN SomeSchema(_infer_schema(Head(rs).response_body))
                      ELSE NoSchema

C17_Witness ==
    /\ mpc = "done"
    /\ Len(endpoint_map.endpoints) = 1
    /\ Len(exchanges) = 2
    /\ exchanges[1].status_code = 404
    /\ HasJson(exchanges[1].response_content_type)
    /\ exchanges[1].response_body = IdDict
    /\ exchanges[2].status_code = 200
    /\ HasJson(exchanges[2].response_content_type)
    /\ exchanges[2].response_body = UserDict
    /\ endpoint_map.endpoints[1].response_schema =
          SomeSchema(_infer_schema(UserDict))

\* the first segment of an endpoint path (empty for "/")
FirstSegment(p) == Split(Strip(p))[1]

\* the POST endpoints without path parameters under the first segment of e
CreatorsFor(e) ==
    {c \in Range(endpoint_map.endpoints) :
        /\ c.method = "POST"
        /\ c.path_params = <<>>
        /\ FirstSegment(c.path) # <<>>
        /\ FirstSegment(c.path) = FirstSegment(e.path)}

\* the dependency entries of endpoint e
EntriesOf(e) ==
    {k \in 1..Len(endpoint_map.dependencies) :
        endpoint_map.dependencies[k].key = <<e.method, " ">> \o e.path}

\* C18 as stated: every endpoint with path parameters depends on every POST
\* endpoint without path parameters that has the same first path segment,
\* and endpoints without path parameters have no dependency entry.
C18_DependsOnEveryCreator ==
    (mpc = "done") =>
        \A e \in Range(endpoint_map.endpoints) :
            IF e.path_params = <<>> THEN EntriesOf(e) = {}
            ELSE \A c \in CreatorsFor(e) \ {e} :
                    \E k \in EntriesOf(e) :
                        <<c.method, " ">> \o c.path
                           \in Range(endpoint_map.dependencies[k].depends_on)

\* C18 amended: an endpoint with path parameters has one dependency entry,
\* naming only the last in (method, path) order of the POST endpoints
\* without path parameters under its first segment, and no entry when
\* there is no such endpoint; endpoints without path parameters have no
\* dependency entry.
C18_DependsOnLastCreator ==
    (mpc = "done") =>
        \A e \in Range(endpoint_map.endpoints) :
            IF e.path_params = <<>> \/ CreatorsFor(e) = {}
            THEN EntriesOf(e) = {}
            ELSE LET last ==
                        CHOOSE c \in CreatorsFor(e) :
                            \A d \in CreatorsFor(e) \ {c} :
                                KeyLess([method |-> d.method, path |-> d.path],
                                        [method |-> c.method, path |-> c.path])
                 IN  /\ Cardinality(EntriesOf(e)) = 1
                     /\ \A k \in EntriesOf(e) :
                           endpoint_map.dependencies[k].depends_on =
                              << <<last.method, " ">> \o last.path >>

C18_Witness ==
    /\ mpc = "done"
    /\ EndpointKeys =
          <<[method |-> "GET", path |-> <<"/", "u", "/", "{id}">>],
            [method |-> "POST", path |-> <<"/", "u">>],
            [method |-> "POST", path |-> <<"/", "u", "/", "u">>]>>
    /\ endpoint_map.dependencies =
          <<[key |-> <<"GET", " ", "/", "u", "/", "{id}">>,
             depends_on |-> << <<"POST", " ", "/", "u", "/", "u">> >>]>>

\* the lower-case header names that occur in the recording
LowerNamesSeen ==
    UNION {{HeaderLower(exchanges[i].request_headers[k].name) :
               k \in 1..Len(exchanges[i].request_headers)} :
           i \in 1..Len(exchanges)}

\* a lower-case name that begins with "accept"
BeginsWithAccept(h) == h \in {"accept", "accept-charset"}

\* the skip-list of the specification
OnSkipList(h) ==
    \/ h \in {"host", "user-agent", "connection", "content-length",
              "content-type", "cookie", "authorization"}
    \/ BeginsWithAccept(h)

\* C19: a header name, compared without regard to case, is among the
\* common headers of the map iff every exchange carries it as a request
\* header and it is not on the skip-list (host, user-agent, any name that
\* begins with accept, connection, content-length, content-type, cookie,
\* authorization).
C19_CommonHeadersIff ==
    (mpc = "done" /\ exchanges # <<>>) =>
        \A h \in LowerNamesSeen :
            (\E k \in 1..Len(endpoint_map.common_headers) :
                endpoint_map.common_headers[k].name = h)
            <=> /\ \A i \in 1..Len(exchanges) :
                      \E k \in 1..Len(exchanges[i].request_headers) :
                          HeaderLower(exchanges[i].request_headers[k].name) = h
                /\ ~OnSkipList(h)

\* C28: the results parsed from a transcript are deduplicated by test name,
\* the first occurrence winning: no two results share a name, each result
\* has the status of the first status line of its name, and only results
\* with status failed carry a failure detail.
C28_FirstOccurrenceWins ==
    (xpc = "parsed") =>
        LET sl == StatusLinesOf(stdout)
        IN  /\ \A i, j \in 1..Len(test_results) :
                  test_results[i].test_name = test_results[j].test_name
                     => i = j
            /\ \A i \in 1..Len(test_results) :
                  test_results[i].error_message # <<>>
                     => test_results[i].status = "failed"
            /\ sl # <<>> =>
                  /\ {test_results[i].test_name : i \in 1..Len(test_results)}
                        = {sl[k].name : k \in 1..Len(sl)}
                  /\ \A i \in 1..Len(test_results) :
                        LET first ==
                               Min({k \in 1..Len(sl) :
                                       sl[k].name = test_results[i].test_name})
                        IN  test_results[i].status = Lower(sl[first].word)

C28_Witness ==
    /\ xpc = "parsed"
    /\ StatusLinesOf(stdout) =
          <<StatusLine("test_a", "PASSED"), StatusLine("test_a", "FAILED")>>
    /\ \E i \in 1..Len(stdout) : stdout[i] = BlockHeader("test_a")
    /\ test_results = <<TestResult("test_a", "passed", <<>>)>>

\* C30: a failing child run is never reported as all passed: when the
\* child has exited with a non-zero exit code, the returned results hold at
\* least one result whose status is not passed.
C30_NonZeroExitNotAllPassed ==
    (xpc = "returned" /\ proc = "exited" /\ returncode # 0) =>
        \E i \in 1..Len(test_results) : test_results[i].status # "passed"

\* the Authorization header values the exchanges of a group carry
AuthorizationValues(exs) ==
    UNION {{exs[i].request_headers[k].value :
               k \in {k \in 1..Len(exs[i].request_headers) :
                         HeaderLower(exs[i].request_headers[k].name)
                            = "authorization"}} :
           i \in 1..Len(exs)}

\* bearer / basic / custom by the prefix of a header value
ByPrefix(v) ==
    IF v = "Bearer abc" THEN "bearer"
    ELSE IF v = "Basic dXNlcg==" THEN "basic"
    ELSE "custom"

\* C29: for every endpoint, auth_required is true iff an exchange of its
\* group carries an Authorization request header, and when auth_required
\* is true auth_type is bearer, basic or custom, never absent, as the
\* prefix of such a header value tells.
C29_AuthTypeNeverAbsent ==
    (mpc = "done") =>
        \A ep \in Range(endpoint_map.endpoints) :
            /\ ep.auth_required <=> AuthorizationValues(GroupOf(ep)) # {}
            /\ ep.auth_required =>
                  ep.auth_type \in
                     {ByPrefix(v) : v \in AuthorizationValues(GroupOf(ep))}

\* the tests C21 is about: at least 4 assertions, a status-code check, a
\* response-body check, a docstring and fewer than 30 lines
WellFormedTest ==
    /\ test.asserts >= 4
    /\ test.status_code
    /\ test.body
    /\ test.docstring
    /\ test.line_count < 30

\* C21 (as stated): every test with at least 4 assertions, a status-code
\* check, a response-body check, a docstring and fewer than 30 lines gets
\* an overall score of at least 0.8.
C21_WellFormedScoresAtLeast08 ==
    (qpc = "scored" /\ WellFormedTest) => quality_score.overall_score >= 8000

\* C21 (amended): such a test of at least 3 lines gets an overall score of
\* at least 0.79, and of at least 0.8 exactly when it also has a header
\* check or an exception check; overall = 0.4*assertion-quality
\* + 0.3*coverage-breadth + 0.3*readability.
C21_WellFormedScoresAtLeast079 ==
    (qpc = "scored" /\ WellFormedTest /\ test.line_count >= 3) =>
        /\ quality_score.overall_score =
              4 * quality_score.assertion_quality
              + 3 * quality_score.coverage_breadth
              + 3 * quality_score.readability
        /\ quality_score.overall_score >= 7900
        /\ quality_score.overall_score >= 8000
              <=> (test.headers \/ test.raises)

C21_Witness ==
    /\ qpc = "scored"
    /\ WellFormedTest
    /\ test.line_count >= 3
    /\ ~test.headers
    /\ ~test.raises
    /\ quality_score.overall_score = 7900

\* C22: a test whose source has no occurrence of the assert keyword gets
\* assertion-quality exactly 0, with or without the missing-status-check
\* penalty, and its issues include the no-assertions issue.
C22_NoAssertionsScoreZero ==
    (qpc = "scored" /\ test.asserts = 0) =>
        /\ quality_score.assertion_quality = 0
        /\ \E i \in 1..Len(quality_score.issues) :
              quality_score.issues[i] = "No assertions found"

C22_Witness ==
    /\ qpc = "scored"
    /\ test.asserts = 0
    /\ test.test_type = "api"
    /\ ~test.status_code
    /\ quality_score.issues =
          <<"No assertions found", "Missing status code assertion">>

\* the import keys found in the examples the Analyzer returned
KeysOfExample(ex) == {ImportKey(ex.imports[j]) : j \in 1..Len(ex.imports)}

\* the number of examples that hold an import of that key
ExamplesWith(key) ==
    Cardinality({i \in 1..Len(analyzer_output.golden_examples) :
                    key \in KeysOfExample(analyzer_output.golden_examples[i])})

\* C23: an import is among the common imports iff it appears in at least
\* half of the example files (with k examples, in at least k/2 of them),
\* and no import key is listed twice.
C23_CommonIffInHalfOfFiles ==
    (apc = "done" /\ analyzer_output.raised = "none") =>
        LET examples == analyzer_output.golden_examples
            common == analyzer_output.common_imports
        IN  /\ \A i \in 1..Len(examples) : \A key \in KeysOfExample(examples[i]) :
                  (\E c \in 1..Len(common) : ImportKey(common[c]) = key)
                  <=> 2 * ExamplesWith(key) >= Len(examples)
            /\ \A c, d \in 1..Len(common) :
                  ImportKey(common[c]) = ImportKey(common[d]) => c = d

\* the files of the batch that are there, are .py files and can be read
ParsedFiles ==
    SelectSeq(golden_file_paths, LAMBDA f : f.exists /\ f.py /\ f.readable)

\* C27: a missing, unreadable or corrupt file never aborts the batch: it
\* contributes nothing, the other files are parsed, and the only error is
\* the no-input error, raised exactly when no example remains.
C27_BadFileNeverAborts ==
    (apc = "done") =>
        LET remaining ==
                [k \in 1..Len(ParsedFiles) |->
                    GoldenExample(ParsedFiles[k].imports)]
                \o [k \in 1..Len(golden_source_codes) |->
                       GoldenExample(golden_source_codes[k])]
        IN  /\ analyzer_output.raised \in {"none", "ValueError"}
            /\ analyzer_output.raised = "ValueError" <=> remaining = <<>>
            /\ analyzer_output.raised = "none" =>
                  analyzer_output.golden_examples = remaining

\* the source texts of a list of tests, in order
SourcesOf(tests) == [n \in 1..Len(tests) |-> tests[n].source_code]

\* C24: rendering a suite with to_file_content and splitting the text again
\* with _extract_test_functions gives the same number of tests, in the
\* same order, each with the source text of the original test.
C24_RenderSplitRoundTrip ==
    (gpc = "split") => SourcesOf(split_again) = SourcesOf(test_suite.tests)

\* the (method, path) keys of the endpoints a context holds
StoredKeys(c) ==
    {EndpointKey(c.endpoint_map.endpoints[k]) :
        k \in 1..Len(c.endpoint_map.endpoints)}

\* C26: merging endpoint maps into a context is an append-only union by
\* (method, path): after every update_from_run call with a uniquely keyed
\* map the context holds every key supplied, holds no key twice, and what
\* a context holds is never removed or replaced by a later call.
C26_MergeIsAppendOnlyUnion ==
    /\ [](/\ \A k \in 1..Len(update.endpoint_map.endpoints) :
               EndpointKey(update.endpoint_map.endpoints[k]) \in StoredKeys(ctx)
          /\ \A i, j \in 1..Len(ctx.endpoint_map.endpoints) :
               EndpointKey(ctx.endpoint_map.endpoints[i])
                  = EndpointKey(ctx.endpoint_map.endpoints[j]) => i = j)
    /\ [][/\ Len(ctx'.endpoint_map.endpoints) >= Len(ctx.endpoint_map.endpoints)
          /\ \A k \in 1..Len(ctx.endpoint_map.endpoints) :
               ctx'.endpoint_map.endpoints[k] = ctx.endpoint_map.endpoints[k]]_vars

\* a second run has supplied a stored key with other details and a new key
C26_Witness ==
    /\ Len(ctx.run_history) >= 2
    /\ Len(ctx.endpoint_map.endpoints) = 2
    /\ Len(update.endpoint_map.endpoints) = 2
    /\ \E k \in 1..2 :
          /\ EndpointKey(update.endpoint_map.endpoints[k])
                = EndpointKey(ctx.endpoint_map.endpoints[1])
          /\ update.endpoint_map.endpoints[k] # ctx.endpoint_map.endpoints[1]

\* two ExecutorAgent.run calls that are under way at the same time
Overlap(a, b) ==
    /\ a # b
    /\ invocation[a].state = "running"
    /\ invocation[b].state = "running"

\* both calls were given a working directory, and the same one
SameGiven(a, b) ==
    /\ invocation[a].working_dir.present
    /\ invocation[b].working_dir.present
    /\ invocation[a].working_dir.dir = invocation[b].working_dir.dir

\* call a was given the directory that mkdtemp made for call b
GivenTempOf(a, b) ==
    /\ invocation[a].working_dir.present
    /\ ~invocation[b].working_dir.present
    /\ invocation[a].working_dir.dir = invocation[b].test_dir

====
